---- MODULE Spec2Model ----
(***************************************************************************)
(* Call-session state machine of the Convoso agent automation.             *)
(*                                                                         *)
(* Three controllers are modelled, selected by the variable agent:         *)
(*   "rest"    ConvosoAgent      (REST polling,  convosoAgent.js)          *)
(*   "browser" PuppeteerAgent    (driven browser, PuppeteerAgent.js)       *)
(*   "prev"    PuppeteerAgent    (phone-state guarded variant,             *)
(*                                previousPuppeteerAgent.js)               *)
(* The browser controllers run under Application (signal handlers,         *)
(* shutdown, process.exit).  Every await of the source is a step boundary: *)
(* the main task (start -> loop), the handleCall task, the stop() body and *)
(* the shutdown handlers interleave at those points only.                  *)
(*                                                                         *)
(* A second specification, SpecApi, models the ConvosoAPI client: login   *)
(* (redirect chain, cookie jar), changeAvailability, phoneLogin,           *)
(* checkAutoIncoming, hangup, setDisposition and phoneLogout, issued one   *)
(* after another by a caller.                                              *)
(***************************************************************************)
EXTENDS Integers, Sequences, FiniteSets, TLC

\* ---------------------------------------------------------------- bounds
MaxLead == 2
MaxLog == 1
MaxBudget == 2
CallCap == 3
MaxTriggers == 2
MaxPhoneSamples == 2
MaxSetCookies == 1
MaxId == 2
MaxOps == 2

\* ------------------------------------------------------------- constants
NotExited == -1
NoId == -1

\* null / falsy result of a detection
Null == [lead_id |-> -1, call_log_id |-> 0]
\* info objects: lead_id 0 = missing, call_log_id 0 = undefined
CallInfos == [lead_id : 0..MaxLead, call_log_id : 0..MaxLog]
Identities == [lead_id : 1..MaxLead, call_log_id : 0..MaxLog]

VARIABLES
  agent,          \* which controller runs
  maxCalls,       \* config.maxCalls
  env,            \* process.env: the three required variables
  isRunning, callCount, inCall, lastLeadId, lastCallLogId,
  browser,        \* "none" | "open" | "closed"
  pc,             \* position of the main task (start / loop)
  hpc,            \* position of the handleCall task
  callInfo,       \* argument of the latest handleCall (in flight or closed)
  phoneSamples,   \* samples taken by waitForPhoneState
  stopPc,         \* position of the stop() body
  stopCaller,     \* who awaits the stop() body
  shutCode,       \* exit code of the shutdown awaiting stop()
  triggers,       \* termination triggers delivered so far
  exitCode,       \* code passed to process.exit, NotExited before
  \* history
  inFlight,       \* handleCall invocations started and not returned
  dispoRun,       \* disposition actions for the identity held in callInfo
  call,           \* counters of the handleCall in flight; sessionError:
                  \* the latest handling met an invalid-session failure;
                  \* ended: how the latest handling returned; sample,
                  \* waited: last sample and result of waitForPhoneState;
                  \* live: window.lead_id when the call was detected
  stopRuns,       \* times the stop() body ran past its guard
  stopCalls,      \* times stop() was invoked
  stopLog,        \* steps performed by stop(), in order
  budgetStop,     \* the budget check called stop()
  stopDuringCall, \* stop() passed its guard while a call was in flight
  availPath,      \* path that set the ready availability
  phoneState,     \* phone state sampled in the current loop iteration
  orch,           \* AutomationOrchestrator: position of run(), the two
                  \* child processes, the signal handler, events so far
  \* ConvosoAPI client (SpecApi)
  op,             \* operation under way, "none" while the client is idle
  apiPc,          \* position inside the operation
  cookies,        \* this.cookies, the jar: name -> value
  sent,           \* history: name -> value last set by the platform
  reqLog,         \* history: requests issued, with their Cookie header
  availCode,      \* argument of changeAvailability
  resumeOk,       \* the resume request succeeded
  availResp,      \* answer to the availability-change request
  apiResult,      \* "none" | "ok" | "error" | "found" | "notfound"
  sessionId,      \* this.sessionId, 0 = null / undefined
  agentLogId,     \* this.agentLogId, 0 = null / undefined
  respAgentLogId, \* history: agentLogId stored from the latest setDisposition
                  \* response, 0 once another response replaced it
  sentAgentLogId, \* history: agent_log_id of the latest request since then
  idNote,         \* history: the stored id was assigned by the caller;
                  \* the latest request carried an explicit argument
  lastResp,       \* history: the latest JSON response
  respLog,        \* history: statuses of the login responses
  opCount         \* client operations started

agentOwn == <<agent, maxCalls, env, isRunning, callCount, inCall, lastLeadId,
               lastCallLogId, browser, pc, hpc, callInfo, phoneSamples,
               stopPc, stopCaller, shutCode, triggers, exitCode, inFlight,
               dispoRun, call, stopRuns, stopCalls, stopLog,
               budgetStop, stopDuringCall, availPath, phoneState>>
agentVars == <<agentOwn, orch>>
sessVars == <<sessionId, agentLogId, respAgentLogId, sentAgentLogId,
              idNote, lastResp, respLog, opCount>>
apiVars == <<op, apiPc, cookies, sent, reqLog, availCode, resumeOk,
             availResp, apiResult, sessVars>>
vars == <<agentVars, apiVars>>

\* the client's state apart from the latest answer
apiKept == <<op, apiPc, cookies, sent, reqLog, availCode, resumeOk, availResp,
             apiResult, sessionId, agentLogId, respAgentLogId,
             sentAgentLogId, idNote, respLog, opCount>>

loopVars == <<isRunning, callCount, inCall, lastLeadId, lastCallLogId>>
taskVars == <<hpc, callInfo, phoneSamples, inFlight, dispoRun, call>>
stopVars == <<stopPc, stopCaller, shutCode, stopRuns, stopCalls, stopLog,
              stopDuringCall>>
confVars == <<agent, maxCalls, env>>

NewCall == [endAct |-> 0, dispo |-> 0, via |-> 0, puts |-> 0,
            ladder |-> FALSE, harvest |-> FALSE, sessionError |-> FALSE,
            ended |-> "none", sample |-> NoId, waited |-> "none",
            live |-> NoId]

\* AutomationOrchestrator constructor: pythonProcess = null,
\* puppeteerProcess = null; run() not called, no signal delivered
OrchNew == [pc |-> "idle", scriptExists |-> FALSE, pythonProcess |-> "null",
            puppeteerProcess |-> "null", handler |-> "none",
            extract |-> "none", log |-> <<>>, code |-> 0,
            exit |-> NotExited]

Running == exitCode = NotExited

\* ---------------------------------------------------------------- Config
Required == {"CONVOSO_USERNAME", "CONVOSO_PASSWORD", "CAMPAIGN_ID"}
\* a variable is not set ("unset" stands for undefined), empty, or holds text
EnvValues == {"unset", "", "x"}

\* a test that only looks for undefined
Falsy_off(v) == v = "unset"
\* !process.env[key]
Falsy(v) == v = "unset" \/ v = ""

\* required.filter(key => !process.env[key])
missing(e) == {key \in Required : Falsy(e[key])}

\* the configuration module has been loaded
Loaded == pc \notin {"load", "configError"}

\* ------------------------------------------------------------ conditions
\* the budget test written with > (off by one)
BudgetReached_off(count, max) == max > 0 /\ count > max
\* the budget test without its maxCalls > 0 guard
BudgetReached_unguarded(count, max) == count >= max
\* config.maxCalls > 0 && this.callCount >= config.maxCalls
BudgetReached(count, max) == max > 0 /\ count >= max

\* stop() without its guard
StopGuard_off(running) == TRUE
\* if (!this.isRunning) return;
StopGuard(running) == running

\* handleCall started without await
HandleAwaited_off(h) == TRUE
\* await this.handleCall(callInfo): the loop resumes when the task returned
HandleAwaited(h) == h = "idle"

\* outcome of a page operation: it rejects once the browser is gone
PageOutcomes(b) == IF b = "open" THEN {"true", "false", "throw"} ELSE {"throw"}
PageResolves(b) == IF b = "open" THEN {"ok", "throw"} ELSE {"throw"}

\* the page function of monitorCalls: window.lead_id, scope.leadInfo,
\* window.leadInfo
detect(live, scopeInfo, winInfo) ==
  IF live > 0
  THEN IF scopeInfo # Null THEN scopeInfo
       ELSE IF winInfo # Null THEN winInfo
       ELSE [lead_id |-> live, call_log_id |-> 0]
  ELSE Null

\* if (callInfo && callInfo.lead_id)
Actionable(r) == r # Null /\ r.lead_id > 0

\* duplicate test of the two browser controllers
IsDuplicate(r) ==
  IF agent = "prev"
  THEN lastLeadId = r.lead_id /\ lastCallLogId = r.call_log_id
  ELSE lastLeadId = r.lead_id

\* ------------------------------------------------------------------ Init
\* no JSON response yet
NoResp == [http |-> "none", success |-> FALSE, data |-> FALSE, found |-> 0,
           info |-> Null, auth |-> FALSE,
           sid |-> 0, alid |-> 0, ishangup |-> FALSE]

\* ConvosoAPI constructor: sessionId = null, agentLogId = null
SessionNew ==
  /\ sessionId = 0 /\ agentLogId = 0 /\ respAgentLogId = 0
  /\ sentAgentLogId = NoId /\ lastResp = NoResp /\ respLog = <<>>
  /\ idNote = [harvested |-> FALSE, explicit |-> FALSE]
  /\ opCount = 0

ApiIdle ==
  /\ op = "none" /\ apiPc = "idle" /\ cookies = <<>> /\ sent = <<>>
  /\ reqLog = <<>> /\ availCode = "ready" /\ resumeOk = FALSE
  /\ availResp = "none" /\ apiResult = "none"
  /\ SessionNew

AgentFields ==
  /\ isRunning = FALSE /\ callCount = 0 /\ inCall = FALSE
  /\ lastLeadId = NoId /\ lastCallLogId = NoId
  /\ browser = "none" /\ hpc = "idle" /\ callInfo = Null
  /\ phoneSamples = 0 /\ stopPc = "idle" /\ stopCaller = "none"
  /\ shutCode = 0 /\ triggers = 0 /\ exitCode = NotExited
  /\ inFlight = 0 /\ dispoRun = 0
  /\ call = NewCall /\ stopRuns = 0 /\ stopCalls = 0 /\ stopLog = <<>>
  /\ budgetStop = FALSE /\ stopDuringCall = FALSE /\ availPath = "none"
  /\ phoneState = NoId

AgentConstructed == AgentFields /\ pc = "init"

\* the process starts: nothing is loaded yet
Init ==
  /\ agent \in {"rest", "browser", "prev"}
  /\ maxCalls \in 0..MaxBudget
  /\ env \in [Required -> EnvValues]
  /\ AgentFields /\ pc = "load"
  /\ orch = OrchNew
  /\ ApiIdle

\* require('../config/config'): new Config() runs validateEnv; when it throws
\* the requiring module fails to load and no agent is ever constructed
loadConfig ==
  /\ pc = "load"
  /\ pc' = IF missing(env) # {} THEN "configError" ELSE "init"
  /\ UNCHANGED <<confVars, loopVars, taskVars, browser, stopVars, triggers,
                 exitCode, budgetStop, availPath, phoneState, orch, apiVars>>

\* ---------------------------------------------------------------- stop()
FirstStopStep == IF agent = "browser" THEN "s_click1" ELSE "s_notready"

\* what the awaiting caller does once stop() has returned
ContinuePc(caller, kind) ==
  IF caller = "main" THEN (IF kind = "break" THEN "done" ELSE "failed") ELSE pc
ContinueExit(caller, code, kind) ==
  IF caller = "shutdown" THEN code
  ELSE IF caller = "main" /\ kind = "fail" /\ agent # "rest" THEN 1
  ELSE exitCode

\* a call of stop(): guard, isRunning = false, first request of the body
stop(caller, code, kind) ==
  LET pass == StopGuard(isRunning)
      sync == ~pass \/ (agent # "rest" /\ browser = "none")
  IN /\ stopCalls' = stopCalls + 1
     /\ isRunning' = IF pass THEN FALSE ELSE isRunning
     /\ stopRuns' = IF pass THEN stopRuns + 1 ELSE stopRuns
     /\ stopDuringCall' = IF pass THEN (inFlight > 0 /\ caller # "main")
                          ELSE stopDuringCall
     /\ stopLog' = stopLog
     /\ IF sync
        THEN /\ UNCHANGED <<stopPc, stopCaller, shutCode>>
             /\ pc' = ContinuePc(caller, kind)
             /\ exitCode' = ContinueExit(caller, code, kind)
        ELSE /\ stopPc' = FirstStopStep
             /\ stopCaller' = caller
             /\ shutCode' = code
             /\ pc' = IF caller = "main"
                      THEN (IF kind = "break" THEN "stop_break" ELSE "stop_fail")
                      ELSE pc
             /\ exitCode' = exitCode

\* the stop() body has run to its end: the caller continues
stopReturns ==
  LET kind == IF pc = "stop_fail" THEN "fail" ELSE "break"
  IN /\ stopPc' = "idle"
     /\ stopCaller' = "none"
     /\ pc' = ContinuePc(stopCaller, kind)
     /\ exitCode' = ContinueExit(stopCaller, shutCode, kind)

\* ConvosoAgent.stop: changeAvailability(notReady), then phoneLogout
stop_restNotReady ==
  /\ Running /\ agent = "rest" /\ stopPc = "s_notready"
  /\ \E ok \in BOOLEAN :
       /\ stopLog' = Append(stopLog, "notready")
       /\ IF ok
          THEN /\ stopPc' = "s_logout"
               /\ UNCHANGED <<stopCaller, pc, exitCode>>
          ELSE stopReturns
  /\ UNCHANGED <<confVars, loopVars, taskVars, browser, shutCode, triggers,
                 stopRuns, stopCalls, budgetStop, stopDuringCall, availPath,
                 phoneState, orch,
                 apiVars>>

stop_restLogout ==
  /\ Running /\ agent = "rest" /\ stopPc = "s_logout"
  /\ stopLog' = Append(stopLog, "logout")
  /\ stopReturns
  /\ UNCHANGED <<confVars, loopVars, taskVars, browser, shutCode, triggers,
                 stopRuns, stopCalls, budgetStop, stopDuringCall, availPath,
                 phoneState, orch,
                 apiVars>>

\* a catch of stop() that returns without closing the browser
StopCatch_off == "idle"
\* catch of stop(): if (this.browser) await this.browser.close()
StopCatch == "s_close"

\* PuppeteerAgent.stop: click the status button, click "Not Ready - Break"
stop_click1 ==
  /\ Running /\ agent = "browser" /\ stopPc = "s_click1"
  /\ \E o \in PageResolves(browser) :
       stopPc' = IF o = "ok" THEN "s_click2" ELSE StopCatch
  /\ UNCHANGED <<confVars, loopVars, taskVars, browser, pc, stopCaller,
                 shutCode, triggers, exitCode, stopRuns, stopCalls, stopLog,
                 budgetStop, stopDuringCall, availPath, phoneState, orch,
                 apiVars>>

stop_click2 ==
  /\ Running /\ agent = "browser" /\ stopPc = "s_click2"
  /\ \E o \in PageResolves(browser) :
       /\ stopLog' = IF o = "ok" THEN Append(stopLog, "notready") ELSE stopLog
       /\ stopPc' = "s_close"
  /\ UNCHANGED <<confVars, loopVars, taskVars, browser, pc, stopCaller,
                 shutCode, triggers, exitCode, stopRuns, stopCalls,
                 budgetStop, stopDuringCall, availPath, phoneState, orch,
                 apiVars>>

\* previous PuppeteerAgent.stop: scope.setAvailability, then scope.logout
stop_prevNotReady ==
  /\ Running /\ agent = "prev" /\ stopPc = "s_notready"
  /\ \E o \in PageResolves(browser) :
       /\ stopLog' = IF o = "ok" THEN Append(stopLog, "notready") ELSE stopLog
       /\ stopPc' = IF o = "ok" THEN "s_logout" ELSE StopCatch
  /\ UNCHANGED <<confVars, loopVars, taskVars, browser, pc, stopCaller,
                 shutCode, triggers, exitCode, stopRuns, stopCalls,
                 budgetStop, stopDuringCall, availPath, phoneState, orch,
                 apiVars>>

stop_prevLogout ==
  /\ Running /\ agent = "prev" /\ stopPc = "s_logout"
  /\ \E o \in PageResolves(browser) :
       /\ stopLog' = IF o = "ok" THEN Append(stopLog, "logout") ELSE stopLog
       /\ stopPc' = "s_close"
  /\ UNCHANGED <<confVars, loopVars, taskVars, browser, pc, stopCaller,
                 shutCode, triggers, exitCode, stopRuns, stopCalls,
                 budgetStop, stopDuringCall, availPath, phoneState, orch,
                 apiVars>>

\* await this.browser.close(), in the try block or in its catch
stop_close ==
  /\ Running /\ agent # "rest" /\ stopPc = "s_close"
  /\ browser' = "closed"
  /\ stopLog' = Append(stopLog, "close")
  /\ stopReturns
  /\ UNCHANGED <<confVars, loopVars, taskVars, shutCode, triggers, stopRuns,
                 stopCalls, budgetStop, stopDuringCall, availPath, phoneState,
                 orch,
                 apiVars>>

\* ----------------------------------------------------------- Application
\* shutdown(exitCode): await this.agent.stop(); process.exit(exitCode)
shutdown(code) ==
  /\ Running /\ agent # "rest" /\ Loaded /\ pc # "init"
  /\ triggers < MaxTriggers
  /\ triggers' = triggers + 1
  /\ stop("shutdown", code, "break")
  /\ UNCHANGED <<confVars, callCount, inCall, lastLeadId, lastCallLogId,
                 taskVars, browser, budgetStop, availPath, phoneState, orch,
                 apiVars>>

\* SIGINT / SIGTERM
signal == shutdown(0)

\* uncaughtException / unhandledRejection
uncaught == shutdown(1)

\* a caller of the public ConvosoAgent.stop()
externalStop ==
  /\ Running /\ agent = "rest" /\ Loaded
  /\ triggers < MaxTriggers
  /\ triggers' = triggers + 1
  /\ stop("external", 0, "break")
  /\ UNCHANGED <<confVars, callCount, inCall, lastLeadId, lastCallLogId,
                 taskVars, browser, budgetStop, availPath, phoneState, orch,
                 apiVars>>

\* ------------------------------------------------------- start (setup)
\* catch of start(): await this.stop(); throw error  (Application.run
\* catches the rethrown error and calls process.exit(1))
startFails ==
  stop("main", 0, "fail")

\* start(): this.isRunning = true, then the first awaited operation
start ==
  /\ Running /\ pc = "init"
  /\ isRunning' = TRUE
  /\ pc' = IF agent = "rest" THEN "login" ELSE "launch"
  /\ UNCHANGED <<confVars, callCount, inCall, lastLeadId, lastCallLogId,
                 taskVars, browser, stopVars, triggers, exitCode, budgetStop,
                 availPath, phoneState, orch, apiVars>>

RestSetupNext(p) ==
  IF p = "login" THEN "phoneLogin" ELSE IF p = "phoneLogin" THEN "ready"
  ELSE "loop"

\* answers to the three start-up requests: login is answered by a status,
\* phoneLogin and changeAvailability by a JSON body
SetupAnswers(p) ==
  IF p = "login"
  THEN {[NoResp EXCEPT !.http = h] : h \in {"fail", "200", "302"}}
  ELSE {[NoResp EXCEPT !.http = "fail"]} \cup
       {[NoResp EXCEPT !.http = "200", !.success = ok, !.data = d] :
          ok \in BOOLEAN, d \in BOOLEAN}

\* a start() that goes on whenever the request was answered at all
SetupAccepted_off(p, r) == r.http # "fail"
\* login: status 302 returns true; phoneLogin: success && data;
\* changeAvailability: success; every other answer throws
SetupAccepted(p, r) ==
  IF p = "login" THEN r.http = "302"
  ELSE IF p = "phoneLogin" THEN r.http # "fail" /\ r.success /\ r.data
  ELSE r.http # "fail" /\ r.success

\* ConvosoAgent.start: api.login, api.phoneLogin, api.changeAvailability
start_rest ==
  /\ Running /\ agent = "rest" /\ pc \in {"login", "phoneLogin", "ready"}
  /\ \E r \in SetupAnswers(pc) :
       /\ lastResp' = r
       /\ IF SetupAccepted(pc, r)
          THEN /\ pc' = RestSetupNext(pc)
               /\ UNCHANGED <<isRunning, stopVars, exitCode>>
          ELSE startFails
       /\ availPath' = availPath /\ phoneState' = phoneState
       /\ orch' = orch
  /\ UNCHANGED <<confVars, callCount, inCall, lastLeadId, lastCallLogId,
                 taskVars, browser, triggers, budgetStop, apiKept>>

\* PuppeteerAgent.start: puppeteer.launch
start_launch ==
  /\ Running /\ agent # "rest" /\ pc = "launch"
  /\ \E ok \in BOOLEAN :
       IF ok
       THEN /\ browser' = "open" /\ pc' = "uiLogin"
            /\ UNCHANGED <<isRunning, stopVars, exitCode>>
       ELSE /\ browser' = browser /\ startFails
  /\ UNCHANGED <<confVars, callCount, inCall, lastLeadId, lastCallLogId,
                 taskVars, triggers, budgetStop, availPath, phoneState, orch,
                 apiVars>>

SetupOutcomes(p, b) ==
  IF p \in {"uiLogin", "verify"}
  THEN (IF b = "open" THEN {"true", "throw"} ELSE {"throw"})
  ELSE PageOutcomes(b)

\* next step of start / selectCampaignAndSetAvailable, "FAIL" = it throws
SetupNext(p, o) ==
  IF o = "throw" THEN "FAIL"
  ELSE CASE p = "uiLogin" -> "campaign"
         [] p = "campaign" -> IF o = "true" THEN "scope" ELSE "FAIL"
         [] p = "scope" -> IF o = "true" THEN "verify" ELSE "uiClick"
         [] p = "uiClick" -> IF o = "true" THEN "availClick"
                             ELSE IF agent = "browser" THEN "apiReady"
                             ELSE "verify"
         [] p = "availClick" -> "verify"
         [] p = "apiReady" -> IF o = "true" THEN "verify" ELSE "FAIL"
         [] OTHER -> "loop"

SetupPath(p, o) ==
  IF o # "true" THEN availPath
  ELSE IF p = "verify" THEN "none"
  ELSE CASE p = "scope" -> "scope"
         [] p = "availClick" -> "ui"
         [] p = "apiReady" -> "api"
         [] OTHER -> availPath

\* the page login and selectCampaignAndSetAvailable, one awaited page or
\* REST operation per step
selectCampaignAndSetAvailable ==
  /\ Running /\ agent # "rest"
  /\ pc \in {"uiLogin", "campaign", "scope", "uiClick", "availClick",
             "apiReady", "verify"}
  /\ \E o \in SetupOutcomes(pc, browser) :
       /\ IF SetupNext(pc, o) = "FAIL"
          THEN startFails
          ELSE /\ pc' = SetupNext(pc, o)
               /\ UNCHANGED <<isRunning, stopVars, exitCode>>
       /\ availPath' = SetupPath(pc, o) /\ phoneState' = phoneState
       /\ orch' = orch
  /\ UNCHANGED <<confVars, callCount, inCall, lastLeadId, lastCallLogId,
                 taskVars, browser, triggers, budgetStop, apiVars>>

\* ------------------------------------------- handleCallsLoop / monitorCalls
\* a failed transport or a status the instance rejects (>= 400)
Rejected == [NoResp EXCEPT !.http = "fail"]

\* JSON answers to checkAutoIncoming
PollResponses ==
  {Rejected} \cup
  {[NoResp EXCEPT !.http = "200", !.success = ok, !.data = d, !.found = f] :
     ok \in BOOLEAN, d \in BOOLEAN, f \in 0..1}

\* if (response.data.success && response.data.data.found === 1) ...
\* return { found: false }; reading found of a missing data throws
checkAutoIncomingResult(r) ==
  IF r.http = "fail" THEN "error"
  ELSE IF ~r.success THEN "notfound"
  ELSE IF ~r.data THEN "error"
  ELSE IF r.found = 1 THEN "found" ELSE "notfound"

\* a loop that also handles an answer without a call
CallFound_off(res) == res \in {"found", "notfound"}
\* if (result.found)
CallFound(res) == res = "found"

\* while (this.isRunning) is false: the loop ends and start() returns
loopExit ==
  /\ Running /\ pc = "loop" /\ ~isRunning
  /\ pc' = "done"
  /\ UNCHANGED <<confVars, loopVars, taskVars, browser, stopVars, triggers,
                 exitCode, budgetStop, availPath, phoneState, orch, apiVars>>

\* the budget check: await this.stop(); break
loopBudget ==
  /\ Running /\ pc = "loop" /\ isRunning
  /\ BudgetReached(callCount, maxCalls)
  /\ budgetStop' = TRUE
  /\ stop("main", 0, "break")
  /\ UNCHANGED <<confVars, callCount, inCall, lastLeadId, lastCallLogId,
                 taskVars, browser, triggers, availPath, phoneState, orch,
                 apiVars>>

\* one more iteration: the inCall skip, or the detection request is issued
loopIterate ==
  /\ Running /\ pc = "loop" /\ isRunning
  /\ ~BudgetReached(callCount, maxCalls)
  /\ pc' = IF agent # "rest" /\ inCall THEN "loop"
           ELSE IF agent = "rest" THEN "poll"
           ELSE IF agent = "prev" THEN "phone" ELSE "detect"
  /\ lastResp' = IF agent = "rest" THEN NoResp ELSE lastResp
  /\ phoneState' = NoId
  /\ UNCHANGED <<confVars, loopVars, taskVars, browser, stopVars, triggers,
                 exitCode, budgetStop, availPath, orch, apiKept>>

\* synchronous prefix of the call handling: the loop's bookkeeping and
\* handleCall up to its first await (this.callCount++)
acceptCall(r, live) ==
  /\ callCount < CallCap
  /\ callCount' = callCount + 1
  /\ inCall' = (agent # "rest")
  /\ lastLeadId' = IF agent = "rest" THEN lastLeadId ELSE r.lead_id
  /\ lastCallLogId' = IF agent = "prev" THEN r.call_log_id ELSE lastCallLogId
  /\ callInfo' = r
  /\ hpc' = "h_wait"
  /\ pc' = "awaitHandle"
  /\ inFlight' = inFlight + 1
  /\ call' = [NewCall EXCEPT !.live = live]
  /\ phoneSamples' = 0
  /\ dispoRun' = IF r = callInfo THEN dispoRun ELSE 0

\* the answers the platform can give to a poll, with the info object
PollAnswers ==
  {[r EXCEPT !.info = i] : r \in {q \in PollResponses : q.data /\ q.found = 1},
                           i \in Identities}
    \cup {r \in PollResponses : r.found = 0}
    \cup {[Rejected EXCEPT !.auth = TRUE]}

\* a loop that stops on every poll error
Critical_off(r) == checkAutoIncomingResult(r) = "error"
\* error.message.includes('authentication') || ...includes('session'):
\* auth marks a rejection whose message names one of them
Critical(r) == checkAutoIncomingResult(r) = "error" /\ r.auth

\* checkAutoIncoming answered found = 1: handleCall(result.callInfo)
poll_found ==
  /\ Running /\ agent = "rest" /\ pc = "poll"
  /\ \E r \in PollAnswers :
       /\ CallFound(checkAutoIncomingResult(r))
       /\ lastResp' = r
       /\ acceptCall(r.info, r.info.lead_id)
  /\ UNCHANGED <<confVars, isRunning, browser,
                 stopVars, triggers, exitCode, budgetStop, availPath,
                 phoneState, orch, apiKept>>

\* no call (sleep pollInterval) or a non-critical error (sleep 5000)
poll_none ==
  /\ Running /\ agent = "rest" /\ pc = "poll"
  /\ \E r \in PollAnswers :
       /\ ~CallFound(checkAutoIncomingResult(r))
       /\ ~Critical(r)
       /\ lastResp' = r
  /\ pc' = "loop"
  /\ UNCHANGED <<confVars, loopVars, taskVars, browser, stopVars, triggers,
                 exitCode, budgetStop, availPath, phoneState, orch, apiKept>>

\* an error whose message names authentication or session: stop(); break
poll_critical ==
  /\ Running /\ agent = "rest" /\ pc = "poll"
  /\ \E r \in PollAnswers :
       /\ Critical(r)
       /\ lastResp' = r
  /\ stop("main", 0, "break")
  /\ UNCHANGED <<confVars, callCount, inCall, lastLeadId, lastCallLogId,
                 taskVars, browser, triggers, budgetStop, availPath,
                 phoneState, orch, apiKept>>

\* a catch that ends the monitoring loop
monitorCatch_off ==
  /\ inCall' = FALSE
  /\ lastLeadId' = lastLeadId
  /\ pc' = "done"
\* catch of monitorCalls
monitorCatch ==
  /\ inCall' = FALSE
  /\ lastLeadId' = IF agent = "browser" THEN NoId ELSE lastLeadId
  /\ pc' = "loop"

\* a loop that goes on to the detection whatever the phone state is
PhoneGuard_off(state) == TRUE
\* if (phoneState !== 2) { sleep; continue }
PhoneGuard(state) == state = 2

\* previous agent: the phone state sampled before the detection
monitorCalls_phone ==
  /\ Running /\ agent = "prev" /\ pc = "phone"
  /\ \E o \in PageResolves(browser) : \E state \in 0..2 :
       IF o = "throw"
       THEN monitorCatch /\ phoneState' = phoneState
       ELSE /\ pc' = IF PhoneGuard(state) THEN "detect" ELSE "loop"
            /\ phoneState' = state
            /\ UNCHANGED <<inCall, lastLeadId>>
  /\ UNCHANGED <<confVars, isRunning, callCount, lastCallLogId, taskVars,
                 browser, stopVars, triggers, exitCode, budgetStop,
                 availPath, orch, apiVars>>

\* the detection resolved with a record that is not a duplicate
monitorCalls_call ==
  /\ Running /\ agent # "rest" /\ pc = "detect" /\ browser = "open"
  /\ \E live \in 0..MaxLead : \E si, wi \in CallInfos \cup {Null} :
       LET r == detect(live, si, wi)
       IN /\ Actionable(r) /\ ~IsDuplicate(r)
          /\ acceptCall(r, live)
  /\ UNCHANGED <<confVars, isRunning, browser,
                 stopVars, triggers, exitCode, budgetStop, availPath,
                 phoneState, orch, apiVars>>

\* the detection resolved with a duplicate or with no call, or it threw
monitorCalls_idle ==
  /\ Running /\ agent # "rest" /\ pc = "detect"
  /\ \E o \in PageResolves(browser) :
     \E live \in 0..MaxLead : \E si, wi \in CallInfos \cup {Null} :
       LET r == detect(live, si, wi)
       IN IF o = "throw"
          THEN monitorCatch
          ELSE /\ ~(Actionable(r) /\ ~IsDuplicate(r))
               /\ pc' = "loop"
               /\ inCall' = inCall
               /\ lastLeadId' = IF ~Actionable(r) /\ agent = "browser"
                                THEN NoId ELSE lastLeadId
  /\ UNCHANGED <<confVars, isRunning, callCount, lastCallLogId, taskVars,
                 browser, stopVars, triggers, exitCode, budgetStop,
                 availPath, phoneState, orch, apiVars>>

\* await this.handleCall(callInfo) resolved; this.inCall = false
loopResume ==
  /\ Running /\ pc = "awaitHandle"
  /\ HandleAwaited(hpc)
  /\ inCall' = FALSE
  /\ pc' = "loop"
  /\ UNCHANGED <<confVars, isRunning, callCount, lastLeadId, lastCallLogId,
                 taskVars, browser, stopVars, triggers, exitCode, budgetStop,
                 availPath, phoneState, orch, apiVars>>

\* ------------------------------------------------------------ handleCall
hUnchanged == <<confVars, isRunning, callCount, inCall, pc, browser, stopVars,
                triggers, exitCode, budgetStop, availPath, phoneState, orch,
                apiVars>>

\* a catch that keeps the remembered identity
handleCall_catch_off ==
  /\ hpc' = "h_catch"
  /\ UNCHANGED <<lastLeadId, lastCallLogId>>
\* catch of handleCall: reset the remembered identity, sleep(5000)
handleCall_catch ==
  /\ hpc' = "h_catch"
  /\ lastLeadId' = IF agent = "rest" THEN lastLeadId ELSE NoId
  /\ lastCallLogId' = IF agent = "prev" THEN NoId ELSE lastCallLogId

\* a handler that clicks WRAPUP after the disposition
AfterDisposition_off == "h_wrapup"
\* step after the disposition ladder
AfterDisposition == IF agent = "prev" THEN "h_phone" ELSE "h_saved"

\* sleep(config.callDuration) is over: the first end-call request is issued
handleCall_wait ==
  /\ Running /\ hpc = "h_wait"
  /\ hpc' = IF agent = "rest" THEN "h_hangup" ELSE "h_wrapup"
  /\ call' = IF agent = "rest" THEN [call EXCEPT !.endAct = @ + 1] ELSE call
  /\ UNCHANGED <<hUnchanged, lastLeadId, lastCallLogId, callInfo,
                 phoneSamples, inFlight, dispoRun>>

\* a ladder that hangs up over REST after the first miss
WrapupMiss_off(step) == "h_sess"
\* a ladder that keeps retrying the click for as long as no control is found
WrapupMiss_again(step) ==
  IF step = "h_wrapup" THEN "h_wrapup2" ELSE "h_wrapup"
\* where a WRAPUP attempt that found no control leads
WrapupMiss(step) ==
  IF agent = "prev" THEN "h_dispo1"
  ELSE IF step = "h_wrapup" THEN "h_wrapup2"
  ELSE IF step = "h_wrapup2" THEN "h_modal" ELSE "h_sess"

\* the WRAPUP click, its retry and the modal Wrapup click
handleCall_wrapup ==
  /\ Running /\ agent # "rest" /\ hpc \in {"h_wrapup", "h_wrapup2", "h_modal"}
  /\ \E o \in PageOutcomes(browser) :
       IF o = "throw"
       THEN /\ handleCall_catch /\ call' = call
       ELSE /\ hpc' = IF o = "true" THEN "h_dispo1" ELSE WrapupMiss(hpc)
            /\ call' = IF o = "true" THEN [call EXCEPT !.endAct = @ + 1]
                       ELSE call
            /\ UNCHANGED <<lastLeadId, lastCallLogId>>
  /\ UNCHANGED <<hUnchanged, callInfo, phoneSamples, inFlight, dispoRun>>

\* session identifiers read from the page, then api.hangup is issued
handleCall_session ==
  /\ Running /\ agent = "browser" /\ hpc = "h_sess"
  /\ \E o \in PageResolves(browser) :
       IF o = "throw"
       THEN /\ handleCall_catch /\ call' = call
       ELSE /\ hpc' = "h_hangup"
            /\ call' = [call EXCEPT !.endAct = @ + 1]
            /\ UNCHANGED <<lastLeadId, lastCallLogId>>
  /\ UNCHANGED <<hUnchanged, callInfo, phoneSamples, inFlight, dispoRun>>

\* answers to a REST request of the call handling: accepted, failed, or
\* failed with an error that reports an invalid session
RestAnswers == {"ok", "failed", "session"}

\* api.hangup answered; ConvosoAgent then issues api.setDisposition
handleCall_hangup ==
  /\ Running /\ agent # "prev" /\ hpc = "h_hangup"
  /\ \E ans \in RestAnswers :
       IF ans # "ok"
       THEN /\ handleCall_catch
            /\ call' = [call EXCEPT !.sessionError = @ \/ ans = "session"]
            /\ dispoRun' = dispoRun
       ELSE /\ hpc' = IF agent = "rest" THEN "h_put" ELSE "h_dispo1"
            /\ call' = IF agent = "rest"
                       THEN [call EXCEPT !.dispo = @ + 1, !.puts = @ + 1]
                       ELSE call
            /\ dispoRun' = IF agent = "rest" THEN dispoRun + 1 ELSE dispoRun
            /\ UNCHANGED <<lastLeadId, lastCallLogId>>
  /\ UNCHANGED <<hUnchanged, callInfo, phoneSamples, inFlight>>

\* a ladder without the fallback after the retried click
UsesApi_off(step, o) == step = "h_panel" /\ o = "false"
\* the ladder falls through to setDispositionViaAPI
UsesApi(step, o) == step \in {"h_panel", "h_retry"} /\ o = "false"

\* a disposition button was clicked
Clicked(step, o) == step \in {"h_dispo1", "h_retry"} /\ o = "true"

\* a handler that gives up after the first disposition click
DispositionNext_off(step, o) == AfterDisposition
\* where a step of the disposition ladder leads
DispositionNext(step, o) ==
  IF UsesApi(step, o) THEN "h_cookies"
  ELSE IF step = "h_dispo1" /\ o = "false" THEN "h_panel"
  ELSE IF step = "h_panel" /\ o = "true" THEN "h_retry"
  ELSE AfterDisposition

\* the disposition click, the panel click and the retried click
handleCall_disposition ==
  /\ Running /\ agent # "rest" /\ hpc \in {"h_dispo1", "h_panel", "h_retry"}
  /\ \E o \in PageOutcomes(browser) :
       IF o = "throw"
       THEN /\ handleCall_catch /\ UNCHANGED <<call, dispoRun>>
       ELSE /\ hpc' = DispositionNext(hpc, o)
            /\ call' = [call EXCEPT
                 !.dispo = IF Clicked(hpc, o) THEN @ + 1 ELSE @,
                 !.via = IF UsesApi(hpc, o) THEN @ + 1 ELSE @,
                 !.ladder = @ \/ (hpc \in {"h_panel", "h_retry"}
                                  /\ o = "false")]
            /\ dispoRun' = IF Clicked(hpc, o) THEN dispoRun + 1 ELSE dispoRun
            /\ UNCHANGED <<lastLeadId, lastCallLogId>>
  /\ UNCHANGED <<hUnchanged, callInfo, phoneSamples, inFlight>>

\* setDispositionViaAPI: page.cookies(), then the session identifiers; a
\* rejection is caught inside and no request is made
setDispositionViaAPI ==
  /\ Running /\ agent # "rest" /\ hpc \in {"h_cookies", "h_apisess"}
  /\ \E o \in PageResolves(browser) :
       IF o = "throw"
       THEN /\ hpc' = AfterDisposition
            /\ call' = [call EXCEPT !.harvest = TRUE]
            /\ dispoRun' = dispoRun
       ELSE IF hpc = "h_cookies"
       THEN /\ hpc' = "h_apisess"
            /\ UNCHANGED <<call, dispoRun>>
       ELSE /\ hpc' = "h_put"
            /\ call' = [call EXCEPT !.dispo = @ + 1, !.puts = @ + 1]
            /\ dispoRun' = dispoRun + 1
  /\ UNCHANGED <<hUnchanged, lastLeadId, lastCallLogId, callInfo,
                 phoneSamples, inFlight>>

\* handleCall returns to the loop: the call is closed
handleCall_closed ==
  /\ hpc' = "idle"
  /\ inFlight' = inFlight - 1
  /\ call' = [NewCall EXCEPT
                !.sessionError = call.sessionError,
                !.ended = IF hpc = "h_catch" THEN "error" ELSE "sequence"]
  /\ phoneSamples' = 0

\* api.setDisposition answered
setDisposition ==
  /\ Running /\ hpc = "h_put"
  /\ \E ans \in RestAnswers :
       IF agent = "rest"
       THEN IF ans = "ok"
            THEN /\ handleCall_closed
                 /\ UNCHANGED <<lastLeadId, lastCallLogId>>
            ELSE /\ handleCall_catch
                 /\ call' = [call EXCEPT
                               !.sessionError = @ \/ ans = "session"]
                 /\ UNCHANGED <<inFlight, phoneSamples>>
       ELSE /\ hpc' = AfterDisposition
            /\ UNCHANGED <<lastLeadId, lastCallLogId, inFlight, call,
                           phoneSamples>>
  /\ UNCHANGED <<hUnchanged, callInfo, dispoRun>>

\* PuppeteerAgent: sleep(2000), this.lastLeadId = null
handleCall_saved ==
  /\ Running /\ agent = "browser" /\ hpc = "h_saved"
  /\ lastLeadId' = NoId
  /\ hpc' = "h_next"
  /\ UNCHANGED <<hUnchanged, lastCallLogId, callInfo, phoneSamples, inFlight,
                 dispoRun, call>>

\* a wait that only ends on the expected state
waitResult_off(state, expected, over) ==
  IF state = expected THEN "true" ELSE "again"
\* while (Date.now() - startTime < timeoutMs): if (currentState ===
\* expectedState) return true; after the loop return false
waitResult(state, expected, over) ==
  IF state = expected THEN "true" ELSE IF over THEN "false" ELSE "again"

\* previous agent: waitForPhoneState(2, 10000), then the tracking is reset
waitForPhoneState ==
  /\ Running /\ agent = "prev" /\ hpc = "h_phone"
  /\ \E o \in PageResolves(browser) : \E state \in 0..2 :
     \E expired \in BOOLEAN :
       LET over == expired \/ phoneSamples + 1 >= MaxPhoneSamples
           res == waitResult(state, 2, over)
       IN IF o = "throw"
          THEN /\ handleCall_catch
               /\ UNCHANGED <<phoneSamples, call>>
          ELSE /\ phoneSamples' = phoneSamples + 1
               /\ call' = [call EXCEPT
                             !.sample = state,
                             !.waited = IF res = "again" THEN @ ELSE res]
               /\ IF res = "again"
                  THEN /\ hpc' = "h_phone"
                       /\ UNCHANGED <<lastLeadId, lastCallLogId>>
                  ELSE /\ hpc' = "h_next"
                       /\ lastLeadId' = NoId /\ lastCallLogId' = NoId
  /\ UNCHANGED <<hUnchanged, callInfo, inFlight, dispoRun>>

\* the closing sleep of handleCall (3000, or 5000 in the catch) is over
handleCall_return ==
  /\ Running /\ hpc \in {"h_next", "h_catch"}
  /\ handleCall_closed
  /\ UNCHANGED <<hUnchanged, lastLeadId, lastCallLogId, callInfo, dispoRun>>

\* ----------------------------------------------------------------- Spec
Next ==
  \/ loadConfig
  \/ start \/ start_rest \/ start_launch \/ selectCampaignAndSetAvailable
  \/ loopExit \/ loopBudget \/ loopIterate
  \/ poll_found \/ poll_none \/ poll_critical
  \/ monitorCalls_phone \/ monitorCalls_call \/ monitorCalls_idle
  \/ loopResume
  \/ handleCall_wait \/ handleCall_wrapup \/ handleCall_session
  \/ handleCall_hangup \/ handleCall_disposition \/ setDispositionViaAPI
  \/ setDisposition \/ handleCall_saved \/ waitForPhoneState
  \/ handleCall_return
  \/ stop_restNotReady \/ stop_restLogout \/ stop_click1 \/ stop_click2
  \/ stop_prevNotReady \/ stop_prevLogout \/ stop_close
  \/ signal \/ uncaught \/ externalStop

Spec == Init /\ [][Next]_vars

\* the steps of one call handling
handleCallStep ==
  \/ handleCall_wait \/ handleCall_wrapup \/ handleCall_session
  \/ handleCall_hangup \/ handleCall_disposition \/ setDispositionViaAPI
  \/ setDisposition \/ handleCall_saved \/ waitForPhoneState
  \/ handleCall_return

\* every awaited page or REST operation and every sleep of handleCall
\* settles, so a handling that can take a step eventually takes one
SpecLive == Spec /\ WF_vars(handleCallStep)

\* ------------------------------------------------------------ ConvosoAPI
\* Strings are sequences of one-character strings.
IndexOf(s, c) ==
  IF \E i \in 1..Len(s) : s[i] = c
  THEN CHOOSE i \in 1..Len(s) : s[i] = c /\ \A j \in 1..(i - 1) : s[j] # c
  ELSE 0

Before(s, c) == IF IndexOf(s, c) = 0 THEN s ELSE SubSeq(s, 1, IndexOf(s, c) - 1)
After(s, c) ==
  IF IndexOf(s, c) = 0 THEN <<>> ELSE SubSeq(s, IndexOf(s, c) + 1, Len(s))

\* String.prototype.split
RECURSIVE Split(_, _)
Split(s, c) ==
  IF IndexOf(s, c) = 0 THEN <<s>>
  ELSE <<Before(s, c)>> \o Split(After(s, c), c)

Undefined == <<"undefined">>

\* Set-Cookie headers the platform may send:
\*   a=1    a=2; p    b=1=    b=2
SetCookieHeaders ==
  { <<"a", "=", "1">>, <<"a", "=", "2", ";", "p">>,
    <<"b", "=", "1", "=">>, <<"b", "=", "2">> }

RECURSIVE SeqsUpTo(_, _)
SeqsUpTo(S, n) ==
  IF n = 0 THEN {<<>>}
  ELSE SeqsUpTo(S, n - 1)
       \cup {Append(q, x) : q \in SeqsUpTo(S, n - 1), x \in S}

\* the set-cookie headers of one response
ResponseCookies == SeqsUpTo(SetCookieHeaders, MaxSetCookies)

\* the cookie a Set-Cookie header sets: the name up to the first "=", the
\* value from there to the first ";"
SentName(h) == Before(Before(h, ";"), "=")
SentValue(h) == After(Before(h, ";"), "=")

Put(jar, name, value) ==
  [n \in DOMAIN jar \cup {name} |-> IF n = name THEN value ELSE jar[n]]

\* const [nameValue] = cookie.split(';');
\* const [name, value] = nameValue.split('=');  this.cookies[name] = value
StoreCookie(jar, h) ==
  LET nameValue == Split(h, ";")[1]
      parts == Split(nameValue, "=")
  IN Put(jar, parts[1], IF Len(parts) >= 2 THEN parts[2] ELSE Undefined)

\* extractCookies: every set-cookie header of the response, in order
RECURSIVE extractCookies(_, _)
extractCookies(jar, hs) ==
  IF hs = <<>> THEN jar
  ELSE extractCookies(StoreCookie(jar, Head(hs)), Tail(hs))

RECURSIVE Platform(_, _)
Platform(set, hs) ==
  IF hs = <<>> THEN set
  ELSE Platform(Put(set, SentName(Head(hs)), SentValue(Head(hs))), Tail(hs))

\* createAxiosInstance: the Cookie header is rendered from the jar as it is
\* when the instance is created
createAxiosInstance(jar) == {<<n, jar[n]>> : n \in DOMAIN jar}

\* a request as issued: its Cookie header, and (history) what the platform
\* had set by then
Request(name, jar, set) ==
  [req |-> name, cookie |-> createAxiosInstance(jar), set |-> set]

\* a POST answer that is followed although it is no redirect
PostAccepted_off(status) == status # "error"
\* if (response.status === 302 && response.headers.location)
PostAccepted(status) == status = "redirect"

\* login: the credential POST (validateStatus: 302 or 200)
login_post ==
  /\ op = "login" /\ apiPc = "post"
  /\ \E status \in {"redirect", "final", "error"} : \E hs \in ResponseCookies :
       /\ respLog' = Append(respLog, status)
       /\ IF status = "error"
          THEN /\ apiPc' = "done" /\ apiResult' = "error"
               /\ UNCHANGED <<cookies, sent, reqLog>>
          ELSE /\ cookies' = extractCookies(cookies, hs)
               /\ sent' = Platform(sent, hs)
               /\ IF PostAccepted(status)
                  THEN /\ apiPc' = "get1" /\ apiResult' = apiResult
                       /\ reqLog' = Append(reqLog,
                                            Request("GET1", cookies', sent'))
                  ELSE /\ apiPc' = "done" /\ apiResult' = "error"
                       /\ reqLog' = reqLog
  /\ UNCHANGED <<op, availCode, resumeOk, availResp, sessionId, agentLogId,
                 respAgentLogId, sentAgentLogId, idNote, lastResp, opCount,
                 agentVars>>

\* login: the answer to the first follow-up GET (validateStatus: < 400)
login_follow ==
  /\ op = "login" /\ apiPc = "get1"
  /\ \E status \in {"redirect", "final", "error"} : \E hs \in ResponseCookies :
       /\ respLog' = Append(respLog, status)
       /\ IF status = "error"
          THEN /\ apiPc' = "done" /\ apiResult' = "error"
               /\ UNCHANGED <<cookies, sent, reqLog>>
          ELSE /\ cookies' = extractCookies(cookies, hs)
               /\ sent' = Platform(sent, hs)
               /\ IF status = "redirect"
                  THEN /\ apiPc' = "get2" /\ apiResult' = apiResult
                       /\ reqLog' = Append(reqLog,
                                            Request("GET2", cookies', sent'))
                  ELSE /\ apiPc' = "done" /\ apiResult' = "ok"
                       /\ reqLog' = reqLog
  /\ UNCHANGED <<op, availCode, resumeOk, availResp, sessionId, agentLogId,
                 respAgentLogId, sentAgentLogId, idNote, lastResp, opCount,
                 agentVars>>

\* login: the answer to the second follow-up GET
login_final ==
  /\ op = "login" /\ apiPc = "get2"
  /\ \E status \in {"final", "error"} : \E hs \in ResponseCookies :
       /\ respLog' = Append(respLog, status)
       /\ IF status = "error"
          THEN /\ apiPc' = "done" /\ apiResult' = "error"
               /\ UNCHANGED <<cookies, sent>>
          ELSE /\ cookies' = extractCookies(cookies, hs)
               /\ sent' = Platform(sent, hs)
               /\ apiPc' = "done" /\ apiResult' = "ok"
  /\ UNCHANGED <<op, reqLog, availCode, resumeOk, availResp, sessionId,
                 agentLogId, respAgentLogId, sentAgentLogId, idNote, lastResp,
                 opCount, agentVars>>

\* if (availabilityCode === config.availabilityReady): resume comes first
ResumesFirst(code) == code = "ready"

\* changeAvailability: the first request is issued
changeAvailability_start ==
  /\ op = "changeAvailability" /\ apiPc = "start"
  /\ IF ResumesFirst(availCode)
     THEN /\ apiPc' = "resume"
          /\ reqLog' = Append(reqLog, Request("resume", cookies, sent))
          /\ sentAgentLogId' = agentLogId
          /\ idNote' = [idNote EXCEPT !.explicit = FALSE]
     ELSE /\ apiPc' = "change"
          /\ reqLog' = Append(reqLog,
                               Request("availability-change", cookies, sent))
          /\ UNCHANGED <<sentAgentLogId, idNote>>
  /\ UNCHANGED <<op, cookies, sent, availCode, resumeOk, availResp, apiResult,
                 sessionId, agentLogId, respAgentLogId, lastResp, respLog,
                 opCount, agentVars>>

\* a resume failure that ends the operation
AfterResume_off(ok) == IF ok THEN "change" ELSE "done"
\* catch (resumeError): warn and go on
AfterResume(ok) == "change"

\* changeAvailability: resume answered (its response is not passed to
\* extractCookies); the availability-change is issued through the instance
\* created at the start
changeAvailability_resume ==
  /\ op = "changeAvailability" /\ apiPc = "resume"
  /\ \E ok \in BOOLEAN : \E hs \in ResponseCookies :
       /\ resumeOk' = ok
       /\ sent' = IF ok THEN Platform(sent, hs) ELSE sent
       /\ apiPc' = AfterResume(ok)
       /\ IF AfterResume(ok) = "change"
          THEN /\ reqLog' = Append(reqLog,
                                    Request("availability-change", cookies,
                                            sent'))
               /\ apiResult' = apiResult
          ELSE /\ reqLog' = reqLog
               /\ apiResult' = "error"
  /\ UNCHANGED <<op, cookies, availCode, availResp, sessVars, agentVars>>

\* if (response.data.success) return response.data; else throw
AvailabilityResult(resp) == IF resp = "success" THEN "ok" ELSE "error"

\* changeAvailability: the availability-change request answered
changeAvailability_change ==
  /\ op = "changeAvailability" /\ apiPc = "change"
  /\ \E resp \in {"success", "refused", "error"} : \E hs \in ResponseCookies :
       /\ availResp' = resp
       /\ cookies' = IF resp = "error" THEN cookies
                     ELSE extractCookies(cookies, hs)
       /\ sent' = IF resp = "error" THEN sent ELSE Platform(sent, hs)
       /\ apiResult' = AvailabilityResult(resp)
       /\ apiPc' = "done"
  /\ UNCHANGED <<op, reqLog, availCode, resumeOk, sessVars, agentVars>>

\* ---- single-request operations
JsonOps == {"phoneLogin", "checkAutoIncoming", "hangup", "setDisposition",
            "phoneLogout"}
Ops == {"login", "changeAvailability"} \cup JsonOps

\* operations whose request body carries agent_log_id
SendsAgentLogId(o) ==
  o \in {"checkAutoIncoming", "hangup", "setDisposition", "phoneLogout"}

\* hangup: agent_log_id: agentLogId || this.agentLogId
HangupAgentLogId(arg, stored) == IF arg # 0 THEN arg ELSE stored

\* the request of a single-request operation is issued
issue ==
  /\ op \in JsonOps /\ apiPc = "start"
  /\ apiPc' = "wait"
  /\ reqLog' = Append(reqLog, Request(op, cookies, sent))
  /\ \E arg \in 0..MaxId :
       /\ op # "hangup" => arg = 0
       /\ sentAgentLogId' = IF SendsAgentLogId(op)
                            THEN HangupAgentLogId(arg, agentLogId)
                            ELSE sentAgentLogId
       /\ idNote' = IF SendsAgentLogId(op)
                    THEN [idNote EXCEPT !.explicit = (arg # 0)]
                    ELSE idNote
  /\ UNCHANGED <<op, cookies, sent, availCode, resumeOk, availResp, apiResult,
                 sessionId, agentLogId, respAgentLogId, lastResp, respLog,
                 opCount, agentVars>>

\* JSON answers to phoneLogin
PhoneLoginResponses ==
  {Rejected} \cup
  {[NoResp EXCEPT !.http = "200", !.success = ok, !.data = d,
                  !.sid = sid, !.alid = alid] :
     ok \in BOOLEAN, d \in BOOLEAN, sid \in 0..MaxId, alid \in 0..MaxId}

\* if (response.data.success && response.data.data)
phoneLoginAccepts(r) == r.http # "fail" /\ r.success /\ r.data

\* the identifiers read from data: a missing field reads as undefined
DataField(r, v) == IF r.data THEN v ELSE 0

\* phoneLogin answered
phoneLogin ==
  /\ op = "phoneLogin" /\ apiPc = "wait"
  /\ \E r \in PhoneLoginResponses : \E hs \in ResponseCookies :
       /\ r.data \/ (r.sid = 0 /\ r.alid = 0)
       /\ lastResp' = r
       /\ cookies' = IF r.http = "fail" THEN cookies
                     ELSE extractCookies(cookies, hs)
       /\ sent' = IF r.http = "fail" THEN sent ELSE Platform(sent, hs)
       /\ IF phoneLoginAccepts(r)
          THEN /\ sessionId' = DataField(r, r.sid)
               /\ agentLogId' = DataField(r, r.alid)
               /\ respAgentLogId' = 0
               /\ sentAgentLogId' = NoId
               /\ idNote' = [harvested |-> FALSE, explicit |-> FALSE]
               /\ apiResult' = "ok"
          ELSE /\ UNCHANGED <<sessionId, agentLogId, respAgentLogId,
                              sentAgentLogId, idNote>>
               /\ apiResult' = "error"
  /\ apiPc' = "done"
  /\ UNCHANGED <<op, reqLog, availCode, resumeOk, availResp, respLog, opCount,
                 agentVars>>

\* checkAutoIncoming answered (its response is not passed to extractCookies)
checkAutoIncoming ==
  /\ op = "checkAutoIncoming" /\ apiPc = "wait"
  /\ \E r \in PollResponses : \E hs \in ResponseCookies :
       /\ r.data \/ r.found = 0
       /\ lastResp' = r
       /\ sent' = IF r.http = "fail" THEN sent ELSE Platform(sent, hs)
       /\ apiResult' = checkAutoIncomingResult(r)
  /\ apiPc' = "done"
  /\ UNCHANGED <<op, cookies, reqLog, availCode, resumeOk, availResp,
                 sessionId, agentLogId, respAgentLogId, sentAgentLogId, idNote,
                 respLog, opCount, agentVars>>

\* if (response.data.ishangup) return response.data; else throw
hangupResult(r) == IF r.http # "fail" /\ r.ishangup THEN "ok" ELSE "error"

\* hangup answered (its response is not passed to extractCookies)
hangup ==
  /\ op = "hangup" /\ apiPc = "wait"
  /\ \E r \in {Rejected} \cup
              {[NoResp EXCEPT !.http = "200", !.ishangup = h] : h \in BOOLEAN} :
     \E hs \in ResponseCookies :
       /\ lastResp' = r
       /\ sent' = IF r.http = "fail" THEN sent ELSE Platform(sent, hs)
       /\ apiResult' = hangupResult(r)
  /\ apiPc' = "done"
  /\ UNCHANGED <<op, cookies, reqLog, availCode, resumeOk, availResp,
                 sessionId, agentLogId, respAgentLogId, sentAgentLogId, idNote,
                 respLog, opCount, agentVars>>

\* a client that never refreshes the stored id
StoredAgentLogId_off(r, stored) == stored
\* if (response.data.data?.agentLogId) this.agentLogId = ...
StoredAgentLogId(r, stored) == IF r.alid # 0 THEN r.alid ELSE stored

\* PuppeteerAgent.setDispositionViaAPI before its request: the jar and the
\* session identifiers are overwritten with those read from the page
harvestSession ==
  /\ op = "setDisposition" /\ apiPc = "start"
  /\ \E sid \in 0..MaxId : \E alid \in 0..MaxId : \E hs \in ResponseCookies :
       /\ sessionId' = sid /\ agentLogId' = alid
       /\ idNote' = [idNote EXCEPT !.harvested = TRUE]
       /\ <<sid, alid>> # <<sessionId, agentLogId>>
       /\ cookies' = extractCookies(<<>>, hs)
       /\ sent' = Platform(<<>>, hs)
  /\ UNCHANGED <<op, apiPc, reqLog, availCode, resumeOk, availResp, apiResult,
                 respAgentLogId, sentAgentLogId, lastResp, respLog, opCount,
                 agentVars>>

\* setDisposition answered
setDispositionResponse ==
  /\ op = "setDisposition" /\ apiPc = "wait"
  /\ \E r \in {Rejected} \cup
              {[NoResp EXCEPT !.http = "200", !.success = ok, !.data = TRUE,
                              !.alid = alid] :
                 ok \in BOOLEAN, alid \in 0..MaxId} :
     \E hs \in ResponseCookies :
       /\ lastResp' = r
       /\ cookies' = IF r.http = "fail" THEN cookies
                     ELSE extractCookies(cookies, hs)
       /\ sent' = IF r.http = "fail" THEN sent ELSE Platform(sent, hs)
       /\ IF r.http # "fail" /\ r.success
          THEN /\ agentLogId' = StoredAgentLogId(r, agentLogId)
               /\ respAgentLogId' = IF r.alid # 0 THEN r.alid
                                    ELSE respAgentLogId
               /\ sentAgentLogId' = IF r.alid # 0 THEN NoId
                                    ELSE sentAgentLogId
               /\ idNote' = IF r.alid # 0
                            THEN [harvested |-> FALSE, explicit |-> FALSE]
                            ELSE idNote
               /\ apiResult' = "ok"
          ELSE /\ UNCHANGED <<agentLogId, respAgentLogId, sentAgentLogId,
                              idNote>>
               /\ apiResult' = "error"
  /\ apiPc' = "done"
  /\ UNCHANGED <<op, reqLog, availCode, resumeOk, availResp, sessionId,
                 respLog, opCount, agentVars>>

\* a logout that insists on the success flag
phoneLogoutAccepts_off(r) == r.http # "fail" /\ r.success
\* if (response.data.success || response.status === 200)
phoneLogoutAccepts(r) == r.http # "fail" /\ (r.success \/ r.http = "200")

\* phoneLogout answered (its response is not passed to extractCookies)
phoneLogout ==
  /\ op = "phoneLogout" /\ apiPc = "wait"
  /\ \E r \in {Rejected} \cup
              {[NoResp EXCEPT !.http = st, !.success = ok] :
                 st \in {"200", "204"}, ok \in BOOLEAN} :
     \E hs \in ResponseCookies :
       /\ lastResp' = r
       /\ sent' = IF r.http = "fail" THEN sent ELSE Platform(sent, hs)
       /\ apiResult' = IF phoneLogoutAccepts(r) THEN "ok" ELSE "error"
  /\ apiPc' = "done"
  /\ UNCHANGED <<op, cookies, reqLog, availCode, resumeOk, availResp,
                 sessionId, agentLogId, respAgentLogId, sentAgentLogId, idNote,
                 respLog, opCount, agentVars>>

\* first position of an operation
StartPc(o) == IF o = "login" THEN "post" ELSE "start"

\* the caller starts the next client operation
nextOp ==
  /\ op # "none" /\ apiPc = "done" /\ opCount < MaxOps
  /\ \E o \in Ops : \E code \in {"ready", "notReady"} :
       /\ o # "changeAvailability" => code = "ready"
       /\ op' = o /\ availCode' = code /\ apiPc' = StartPc(o)
  /\ opCount' = opCount + 1
  /\ reqLog' = <<>> /\ respLog' = <<>> /\ resumeOk' = FALSE
  /\ availResp' = "none" /\ apiResult' = "none" /\ lastResp' = NoResp
  /\ UNCHANGED <<cookies, sent, sessionId, agentLogId, respAgentLogId,
                 sentAgentLogId, idNote, agentVars>>

InitApi ==
  /\ agent = "rest" /\ maxCalls = 0
  /\ env = [key \in Required |-> "x"]
  /\ AgentConstructed
  /\ orch = OrchNew
  /\ op \in Ops
  /\ apiPc = StartPc(op)
  /\ availCode \in (IF op = "changeAvailability" THEN {"ready", "notReady"}
                    ELSE {"ready"})
  /\ \E trusted \in BOOLEAN :
       /\ cookies = (IF trusted THEN Put(<<>>, <<"t">>, <<"1">>) ELSE <<>>)
       /\ sent = cookies
  /\ reqLog = <<>> /\ resumeOk = FALSE /\ availResp = "none"
  /\ apiResult = "none"
  /\ sessionId = 0 /\ agentLogId = 0 /\ respAgentLogId = 0
  /\ sentAgentLogId = NoId /\ lastResp = NoResp /\ respLog = <<>>
  /\ idNote = [harvested |-> FALSE, explicit |-> FALSE]
  /\ opCount = 1

NextApi ==
  \/ login_post \/ login_follow \/ login_final
  \/ changeAvailability_start \/ changeAvailability_resume
  \/ changeAvailability_change
  \/ issue \/ phoneLogin \/ checkAutoIncoming \/ hangup
  \/ harvestSession \/ setDispositionResponse \/ phoneLogout
  \/ nextOp

SpecApi == InitApi /\ [][NextApi]_vars

\* ------------------------------------------------ AutomationOrchestrator
\* the orchestrator process has not called process.exit
OrchAlive == orch.exit = NotExited

\* an extraction whose failure sends run() to its catch
AfterExtract_off(res) == IF res = "failed" THEN "catch" ELSE "stopOCR"
\* extractCallLogs catches its own errors and returns null: run() goes on
\* to stopOCRRecorder whatever the result
AfterExtract(res) == "stopOCR"

\* kill('SIGINT') is sent to a child that is running and not yet killed
Killed(p) == IF p = "running" THEN "killed" ELSE p

\* stopOCRRecorder: the recorder is signalled and its exit (or the 5 s
\* timer) is awaited; nothing to do without a live process object
Stopped(p) == IF p \in {"running", "failed"} THEN "exited" ELSE p
StopEvents(p) == IF p = "running" THEN <<"ocrStop">> ELSE <<>>

InitOrch ==
  /\ agent = "browser" /\ maxCalls = 0
  /\ env = [key \in Required |-> "x"]
  /\ AgentConstructed
  /\ ApiIdle
  /\ \E e \in BOOLEAN :
       orch = [OrchNew EXCEPT !.pc = "startOCR", !.scriptExists = e]

\* run(), step 1: startOCRRecorder; a missing script resolves null, an
\* 'error' event of the child rejects
startOCRRecorder ==
  /\ OrchAlive /\ orch.pc = "startOCR"
  /\ \E ok \in BOOLEAN :
       orch' = IF ~orch.scriptExists
               THEN [orch EXCEPT !.pc = "spawnAgent"]
               ELSE IF ok
               THEN [orch EXCEPT !.pc = "spawnAgent",
                                 !.pythonProcess = "running",
                                 !.log = Append(@, "ocrStart")]
               ELSE [orch EXCEPT !.pc = "catch", !.pythonProcess = "failed"]
  /\ UNCHANGED <<agentOwn, apiVars>>

\* run(), step 2: startPuppeteerAgent spawns the agent process
startPuppeteerAgent ==
  /\ OrchAlive /\ orch.pc = "spawnAgent"
  /\ \E ok \in BOOLEAN :
       orch' = IF ok
               THEN [orch EXCEPT !.pc = "awaitAgent",
                                 !.puppeteerProcess = "running",
                                 !.log = Append(@, "agentSpawn")]
               ELSE [orch EXCEPT !.pc = "catch",
                                 !.puppeteerProcess = "failed"]
  /\ UNCHANGED <<agentOwn, apiVars>>

\* the agent process exits, by itself or after cleanup signalled it: the
\* promise of startPuppeteerAgent resolves with its code
puppeteerExit ==
  /\ OrchAlive /\ orch.puppeteerProcess \in {"running", "killed"}
  /\ \E code \in 0..1 :
       orch' = [orch EXCEPT
                  !.puppeteerProcess = "exited",
                  !.code = code,
                  !.log = Append(@, "agentExit"),
                  !.pc = IF @ = "awaitAgent" THEN "extract" ELSE @]
  /\ UNCHANGED <<agentOwn, apiVars>>

\* run(), step 3: extractCallLogs
extractCallLogs ==
  /\ OrchAlive /\ orch.pc = "extract"
  /\ \E res \in {"ok", "empty", "failed"} :
       orch' = [orch EXCEPT !.extract = res,
                            !.log = Append(@, "extract"),
                            !.pc = AfterExtract(res)]
  /\ UNCHANGED <<agentOwn, apiVars>>

\* run(), step 4: stopOCRRecorder; run() returns the agent's exit code and
\* the main module calls process.exit(exitCode || 0)
stopOCRRecorder ==
  /\ OrchAlive /\ orch.pc = "stopOCR"
  /\ orch' = [orch EXCEPT !.pythonProcess = Stopped(@),
                          !.log = @ \o StopEvents(orch.pythonProcess),
                          !.pc = "done",
                          !.exit = orch.code]
  /\ UNCHANGED <<agentOwn, apiVars>>

\* catch of run(): await this.cleanup(); process.exit(1)
runCatch ==
  /\ OrchAlive /\ orch.pc = "catch"
  /\ orch' = [orch EXCEPT
                !.puppeteerProcess = Killed(@),
                !.pythonProcess = Stopped(@),
                !.log = @ \o <<"cleanup">> \o StopEvents(orch.pythonProcess),
                !.pc = "failed",
                !.exit = 1]
  /\ UNCHANGED <<agentOwn, apiVars>>

\* SIGINT / SIGTERM: the handler calls cleanup, which signals the agent
\* process and then awaits stopOCRRecorder
orchSignal ==
  /\ OrchAlive /\ orch.handler = "none" /\ orch.pc # "idle"
  /\ orch' = [orch EXCEPT !.handler = "cleanup",
                          !.puppeteerProcess = Killed(@),
                          !.log = Append(@, "cleanup")]
  /\ UNCHANGED <<agentOwn, apiVars>>

\* the handler's stopOCRRecorder resolved: process.exit(0)
orchSignalExit ==
  /\ OrchAlive /\ orch.handler = "cleanup"
  /\ orch' = [orch EXCEPT !.handler = "exit",
                          !.pythonProcess = Stopped(@),
                          !.log = @ \o StopEvents(orch.pythonProcess),
                          !.exit = 0]
  /\ UNCHANGED <<agentOwn, apiVars>>

NextOrch ==
  \/ startOCRRecorder \/ startPuppeteerAgent \/ puppeteerExit
  \/ extractCallLogs \/ stopOCRRecorder \/ runCatch
  \/ orchSignal \/ orchSignalExit

SpecOrch == InitOrch /\ [][NextOrch]_vars

\* ---------------------------------------------------------------- claims
\* steps of handleCall at which the end-call or the disposition is still
\* to come
DispositionPending ==
  {"h_wait", "h_wrapup", "h_wrapup2", "h_modal", "h_sess", "h_hangup",
   "h_dispo1", "h_panel", "h_retry", "h_cookies", "h_apisess", "h_put"}

\* steps of handleCall after the disposition ladder
LadderDone == {"h_saved", "h_phone", "h_next", "h_catch"}

\* place of a step in the stop sequence
StepRank(e) == CASE e = "notready" -> 1 [] e = "logout" -> 2 [] OTHER -> 3

\* names of the requests issued, in order
ReqNames == [i \in 1..Len(reqLog) |-> reqLog[i].req]

\* C1: with maxCalls = N > 0 callCount never exceeds N, and when the budget
\* check calls stop() handleCall has been started exactly N times.
C1_BudgetExact ==
  /\ maxCalls > 0 => callCount <= maxCalls
  /\ budgetStop => callCount = maxCalls

C1_Witness ==
  /\ agent \in {"rest", "browser"} /\ budgetStop
  /\ maxCalls > 1 /\ callCount = maxCalls /\ inFlight = 0

\* C2: at most one handleCall is in flight, and while one is in flight the
\* loop is suspended on it, so no detection starts another.
C2_SingleFlight ==
  /\ inFlight <= 1
  /\ inFlight = 1 => pc = "awaitHandle" /\ hpc # "idle"

C2_Witness ==
  /\ agent = "browser" /\ inFlight = 1 /\ inCall /\ hpc = "h_panel"
  /\ callCount = 2

\* C3: a detection carrying the identity of the most recently closed call,
\* which was dispositioned, starts no handleCall and does not increment
\* callCount.
C3_Original ==
  [][(callCount' > callCount /\ dispoRun >= 1) => callInfo' # callInfo]_vars

\* C4: when Application.shutdown enters stop() while a call is in flight, no
\* step of the stop sequence and no process exit happens while the end-call
\* or the disposition of that call is still to come.
C4_Original ==
  (agent # "rest" /\ stopDuringCall /\ inFlight > 0
     /\ hpc \in DispositionPending)
    => (stopLog = <<>> /\ browser # "closed" /\ exitCode = NotExited)

\* C5: the process exits only after stop() has run to completion (its body
\* entered, no step of it still pending, the browser released), its steps
\* taken in the order set-not-ready, logout, release of the browser.
C5_Original ==
  exitCode # NotExited =>
    /\ stopRuns >= 1 /\ stopPc = "idle" /\ browser # "open"
    /\ \A i, j \in 1..Len(stopLog) :
         i < j => StepRank(stopLog[i]) < StepRank(stopLog[j])

\* C6: the body of stop() behind the isRunning guard runs at most once: no
\* step of it is performed twice, whatever the number of stop() calls.
C6_StopOnce ==
  /\ stopRuns <= 1
  /\ \A i, j \in 1..Len(stopLog) : stopLog[i] = stopLog[j] => i = j

C6_Witness ==
  stopCalls >= 2 /\ stopRuns = 1 /\ stopPc = "idle" /\ Len(stopLog) >= 2

\* C7 (as stated): once the ladder has fallen through, exactly one REST
\* setDisposition request has been issued for the call.
C7_Original ==
  (agent # "rest" /\ call.ladder /\ hpc \in LadderDone) => call.puts = 1

\* C7 (amended): once the ladder has fallen through, setDispositionViaAPI
\* has been invoked exactly once; it issues at most one setDisposition
\* request, exactly one unless reading the page's cookies or session
\* identifiers failed, and no disposition click follows it.
C7_Amended ==
  (agent # "rest" /\ call.ladder) =>
    /\ call.via = 1
    /\ call.puts <= 1
    /\ call.dispo = call.puts
    /\ hpc \in LadderDone => (call.puts = 1 <=> ~call.harvest)

C7_Witness ==
  /\ agent = "browser" /\ call.ladder /\ call.via = 1 /\ call.puts = 1
  /\ hpc = "h_saved"

\* C8: at most one disposition action is performed for a detected call
\* over the whole run.
C8_Original == dispoRun <= 1

\* C9: changeAvailability with the ready code issues resume, then
\* availability-change, whether or not resume succeeded; it succeeds exactly
\* when the availability-change response reports success.
C9_ResumeFirst ==
  /\ (op = "changeAvailability" /\ availCode = "ready" /\ Len(reqLog) >= 1)
       => reqLog[1].req = "resume"
  /\ (op = "changeAvailability" /\ apiPc = "done") =>
       /\ ReqNames = IF availCode = "ready"
                     THEN <<"resume", "availability-change">>
                     ELSE <<"availability-change">>
       /\ apiResult = "ok" <=> availResp = "success"

C9_Witness ==
  /\ op = "changeAvailability" /\ apiPc = "done" /\ availCode = "ready"
  /\ ~resumeOk /\ apiResult = "ok"
  /\ ReqNames = <<"resume", "availability-change">>

\* C10: after a login that succeeded through two redirects, every cookie
\* the platform set is in the jar with the value last sent, and each
\* follow-up GET carried every cookie set by then.
C10_Original ==
  (op = "login" /\ apiPc = "done" /\ apiResult = "ok" /\ Len(reqLog) = 2) =>
    /\ \A n \in DOMAIN sent : n \in DOMAIN cookies /\ cookies[n] = sent[n]
    /\ \A i \in 1..Len(reqLog) : \A n \in DOMAIN reqLog[i].set :
         <<n, reqLog[i].set[n]>> \in reqLog[i].cookie

\* the answer is a success response reporting found = f
Reports(r, f) == r.http # "fail" /\ r.success /\ r.data /\ r.found = f

\* C11: ConvosoAgent.handleCallsLoop starts handleCall exactly on a poll whose
\* response reports found = 1, handing it that response's info object with
\* lead_id unchanged; a poll answered found = 0 leads to a wait and the next
\* poll, with no handleCall.
C11_FirstFound ==
  [][(agent = "rest" /\ pc = "poll" /\ pc' # "poll") =>
       /\ (inFlight' > inFlight) <=> Reports(lastResp', 1)
       /\ (inFlight' > inFlight) =>
            /\ callInfo' = lastResp'.info
            /\ callInfo'.lead_id \in 1..MaxLead
            /\ hpc' = "h_wait" /\ callCount' = callCount + 1
       /\ Reports(lastResp', 0) =>
            /\ pc' = "loop"
            /\ UNCHANGED <<inFlight, callCount, callInfo, hpc>>]_vars

C11_Witness ==
  /\ agent = "rest" /\ callCount = 2 /\ hpc = "h_wait"
  /\ Reports(lastResp, 1) /\ callInfo = lastResp.info
  /\ callInfo.lead_id = MaxLead

\* stage of a handleCall position: 1 wait-duration, 2 end-call,
\* 3 wait-for-panel, 4 set-disposition, 5 wait-for-availability, 6 return
CallStage(step) ==
  CASE step = "h_wait" -> 1
    [] step \in {"h_wrapup", "h_wrapup2", "h_modal", "h_sess", "h_hangup"} -> 2
    [] step = "h_dispo1" -> 3
    [] step \in {"h_panel", "h_retry", "h_cookies", "h_apisess", "h_put"} -> 4
    [] step \in {"h_saved", "h_phone"} -> 5
    [] OTHER -> 6

\* C13: within one handleCall the positions advance through wait-duration,
\* end-call, wait-for-panel, set-disposition, wait-for-availability and never
\* go back; a handling starts at wait-duration; no disposition action
\* (click or REST request) happens while the handling is still at or before
\* its end-call step.
C13_StepOrder ==
  [][/\ (hpc # "idle" /\ hpc' # "idle") => CallStage(hpc') >= CallStage(hpc)
     /\ (hpc = "idle" /\ hpc' # "idle") =>
          (hpc' = "h_wait" /\ [call' EXCEPT !.live = NoId] = NewCall)
     /\ CallStage(hpc') <= 2 =>
          (call'.dispo = 0 /\ call'.via = 0 /\ call'.puts = 0)
     /\ call'.dispo > call.dispo =>
          (CallStage(hpc) \in 2..4 /\ CallStage(hpc') >= 4
           /\ (agent # "prev" => call'.endAct >= 1))]_vars

C13_Witness ==
  /\ agent = "prev" /\ hpc = "h_next" /\ phoneSamples >= 1
  /\ call.endAct = 1 /\ call.dispo = 1 /\ callCount = 2

\* C20: after a hangup or disposition failure that reports an invalid
\* session, ConvosoAgent does not resume listening: no further poll is issued.
C20_Original ==
  (agent = "rest" /\ call.sessionError) => pc # "poll"

\* C12 (as stated): once a setDisposition response has stored
\* agentLogId = v, every later request that carries agent_log_id carries v,
\* until a later response replaces the stored value.
C12_Original ==
  (respAgentLogId > 0 /\ sentAgentLogId # NoId)
    => sentAgentLogId = respAgentLogId

\* C12 (amended): the value v stays stored through later responses without
\* agentLogId, and every later request carries v, unless the caller
\* overwrote the stored id (setDispositionViaAPI) or passed hangup an
\* explicit agentLogId.
C12_Amended ==
  /\ (respAgentLogId > 0 /\ ~idNote.harvested)
       => agentLogId = respAgentLogId
  /\ (respAgentLogId > 0 /\ sentAgentLogId # NoId /\ ~idNote.harvested
      /\ ~idNote.explicit)
       => sentAgentLogId = respAgentLogId

C12_Witness ==
  /\ op = "checkAutoIncoming" /\ apiPc = "wait" /\ opCount = 2
  /\ respAgentLogId = 1 /\ sentAgentLogId = 1 /\ ~idNote.harvested

\* C14: the Application process exits with 0 only when start-up did not
\* fail: once the catch of start() has been entered (its stop() running, or
\* the error rethrown), the exit code is 1, whatever signals arrive.
C14_Original ==
  (agent # "rest" /\ exitCode # NotExited /\ pc \in {"stop_fail", "failed"})
    => exitCode = 1

\* C15: checkAutoIncoming throws when the transport fails, the success flag
\* is false or data is missing; it answers found = false only for a
\* successful response whose found is not 1, and found = true only for a
\* successful response whose found is 1.
C15_Original ==
  (op = "checkAutoIncoming" /\ apiPc = "done") =>
    /\ (lastResp.http = "fail" \/ ~lastResp.success \/ ~lastResp.data)
         => apiResult = "error"
    /\ apiResult = "notfound"
         => (lastResp.success /\ lastResp.data /\ lastResp.found # 1)
    /\ apiResult = "found"
         => (lastResp.success /\ lastResp.data /\ lastResp.found = 1)

\* C16: phoneLogin succeeds only when the response reports success and
\* carries both session_id and agent_log_id, and then stores exactly those.
C16_Original ==
  (op = "phoneLogin" /\ apiPc = "done") =>
    /\ apiResult = "ok" =>
         /\ lastResp.success /\ lastResp.sid # 0 /\ lastResp.alid # 0
         /\ sessionId = lastResp.sid /\ agentLogId = lastResp.alid
    /\ (~lastResp.success \/ lastResp.sid = 0 \/ lastResp.alid = 0)
         => apiResult = "error"

\* C17 (as stated): phoneLogout does not throw for any response with a
\* status below 400, whether or not the body carries success = true.
C17_Original ==
  (op = "phoneLogout" /\ apiPc = "done" /\ lastResp.http # "fail")
    => apiResult = "ok"

\* C17 (amended): phoneLogout does not throw exactly when the response has
\* a status below 400 and either status 200 or success = true in its body.
C17_Amended ==
  (op = "phoneLogout" /\ apiPc = "done") =>
    (apiResult = "ok" <=>
       (lastResp.http # "fail"
        /\ (lastResp.http = "200" \/ lastResp.success)))

C17_Witness ==
  /\ op = "phoneLogout" /\ apiPc = "done" /\ apiResult = "ok"
  /\ lastResp.http = "200" /\ ~lastResp.success

\* C18: login succeeds exactly when the credential POST is answered by a
\* redirect and no follow-up GET fails; without a redirect it fails and no
\* follow-up request is issued.
C18_LoginRedirect ==
  (op = "login" /\ apiPc = "done") =>
    /\ Len(respLog) >= 1
    /\ apiResult = "ok" <=>
         (respLog[1] = "redirect"
          /\ \A i \in 1..Len(respLog) : respLog[i] # "error")
    /\ respLog[1] # "redirect" => (apiResult = "error" /\ reqLog = <<>>)

C18_Witness ==
  /\ op = "login" /\ apiPc = "done" /\ respLog = <<"final">>
  /\ apiResult = "error" /\ reqLog = <<>>

\* C19: every cookie a response has set is in the jar, and every request
\* carries each cookie set by the responses before it.
C19_Original ==
  /\ \A n \in DOMAIN sent : n \in DOMAIN cookies
  /\ \A i \in 1..Len(reqLog) : \A n \in DOMAIN reqLog[i].set :
       \E c \in reqLog[i].cookie : c[1] = n

\* C21: an exception during a call's handling is contained in handleCall:
\* entering the catch resets the remembered identity, calls no stop() and
\* leaves the loop, isRunning and callCount alone; the handler then returns
\* to the loop; callCount changes only by the one increment made when a
\* handleCall starts.
C21_Contained ==
  [][/\ (hpc # "h_catch" /\ hpc' = "h_catch") =>
          /\ agent # "rest" => lastLeadId' = NoId
          /\ agent = "prev" => lastCallLogId' = NoId
          /\ UNCHANGED <<callCount, isRunning, pc, stopCalls, exitCode,
                         inFlight>>
     /\ (hpc = "h_catch" /\ hpc' # "h_catch") =>
          /\ hpc' = "idle" /\ inFlight' = inFlight - 1
          /\ UNCHANGED <<callCount, isRunning, pc, stopCalls, exitCode>>
     /\ callCount' # callCount =>
          /\ callCount' = callCount + 1
          /\ hpc = "idle" /\ hpc' = "h_wait" /\ inFlight' = inFlight + 1]_vars

C21_Witness ==
  /\ agent = "prev" /\ hpc = "h_catch" /\ callCount = 2 /\ isRunning
  /\ lastLeadId = NoId /\ lastCallLogId = NoId /\ call.endAct = 1

\* the poll failed with an error that names neither authentication nor
\* session
TransientPollError(r) == checkAutoIncomingResult(r) = "error" /\ ~r.auth

\* C22: a poll failure that is not an authentication/session error, and any
\* outcome of a browser detection (a throw included), leaves the loop
\* running: no stop() is called, the loop is back at its head, and from the
\* head with isRunning set and the budget not reached the next step of the
\* loop is another detection.
C22_LoopSurvives ==
  [][/\ (agent = "rest" /\ pc = "poll" /\ pc' # "poll"
         /\ TransientPollError(lastResp')) =>
          (pc' = "loop" /\ UNCHANGED <<isRunning, stopCalls, exitCode>>)
     /\ (agent # "rest" /\ pc \in {"phone", "detect"} /\ pc' # pc) =>
          /\ pc' \in {"loop", "detect", "awaitHandle"}
          /\ UNCHANGED <<isRunning, stopCalls, exitCode>>
     /\ (pc = "loop" /\ pc' # "loop" /\ isRunning
         /\ ~BudgetReached(callCount, maxCalls)) =>
          pc' \in {"poll", "phone", "detect"}]_vars

C22_Witness ==
  /\ agent = "rest" /\ pc = "loop" /\ isRunning /\ callCount = 1
  /\ TransientPollError(lastResp) /\ lastResp.http = "fail"
  /\ stopCalls = 0 /\ exitCode = NotExited

\* C23: once PuppeteerAgent.stop() has passed its guard with a launched
\* browser, it does not return before browser.close() was invoked: while the
\* browser is still open the body of stop() is still under way, and when
\* the body has ended the close is among its steps, also when the
\* set-not-ready or the logout step threw.
C23_CloseBeforeReturn ==
  (agent # "rest" /\ stopRuns >= 1 /\ browser # "none") =>
    /\ browser = "open" => stopPc # "idle"
    /\ stopPc = "idle" =>
         (browser = "closed" /\ stopLog[Len(stopLog)] = "close")

C23_Witness ==
  /\ agent = "prev" /\ stopRuns = 1 /\ stopPc = "idle"
  /\ browser = "closed" /\ stopLog = <<"close">>

\* C24: when the budget check calls stop(), no handleCall is in flight: the
\* handler of the last counted call has returned, either at the end of its
\* end-call / disposition sequence or through its catch.
C24_BetweenCalls ==
  [][(budgetStop' /\ ~budgetStop) =>
       /\ inFlight = 0 /\ hpc = "idle" /\ ~inCall
       /\ callCount = maxCalls
       /\ call.ended \in {"sequence", "error"}
       /\ call.endAct = 0 /\ call.dispo = 0]_vars

C24_Witness ==
  /\ agent = "prev" /\ budgetStop /\ maxCalls = 2 /\ callCount = 2
  /\ inFlight = 0 /\ call.ended = "error" /\ stopRuns = 1

\* the required variables that are absent or empty
AbsentOrEmpty == {key \in Required : env[key] \in {"unset", ""}}

\* C25: if one of CONVOSO_USERNAME, CONVOSO_PASSWORD, CAMPAIGN_ID is absent
\* or empty, loading the configuration throws and no agent operation is ever
\* performed; if all three are present, loading succeeds.
C25_ConfigGate ==
  /\ AbsentOrEmpty # {} =>
       /\ pc \in {"load", "configError"}
       /\ ~isRunning /\ browser = "none" /\ callCount = 0
       /\ stopCalls = 0 /\ lastResp = NoResp
  /\ AbsentOrEmpty = {} => pc # "configError"

C25_Witness ==
  /\ pc = "configError"
  /\ env["CONVOSO_USERNAME"] = "x" /\ env["CONVOSO_PASSWORD"] = "x"
  /\ env["CAMPAIGN_ID"] = ""

\* ------------------------------------------------------- duplicate test
\* The duplicate test of monitorCalls as a function of its inputs: the
\* remembered identity and a detected record.  The remembered identity is
\* null, or the pair assigned from an earlier record (the call-log-unaware
\* agent never assigns lastCallLogId).
Remembered ==
  {<<NoId, NoId>>} \cup
  {<<r.lead_id, IF agent = "prev" THEN r.call_log_id ELSE NoId>> :
     r \in Identities}

InitDup ==
  /\ agent \in {"browser", "prev"} /\ maxCalls = 0
  /\ env = [key \in Required |-> "x"]
  /\ isRunning = TRUE /\ callCount = 0 /\ inCall = FALSE
  /\ \E id \in Remembered : lastLeadId = id[1] /\ lastCallLogId = id[2]
  /\ browser = "open" /\ pc = "detect" /\ hpc = "idle"
  /\ callInfo \in CallInfos \cup {Null}
  /\ phoneSamples = 0 /\ stopPc = "idle" /\ stopCaller = "none"
  /\ shutCode = 0 /\ triggers = 0 /\ exitCode = NotExited
  /\ inFlight = 0 /\ dispoRun = 0
  /\ call = NewCall /\ stopRuns = 0 /\ stopCalls = 0 /\ stopLog = <<>>
  /\ budgetStop = FALSE /\ stopDuringCall = FALSE /\ availPath = "none"
  /\ phoneState = NoId
  /\ orch = OrchNew
  /\ ApiIdle

\* if (callInfo && callInfo.lead_id) { if (duplicate) { sleep(1000);
\* continue } ... handleCall(callInfo) } else sleep(2000)
judge ==
  /\ pc = "detect"
  /\ pc' = IF Actionable(callInfo) /\ ~IsDuplicate(callInfo)
           THEN "awaitHandle" ELSE "loop"
  /\ lastLeadId' = IF ~Actionable(callInfo) /\ agent = "browser"
                   THEN NoId ELSE lastLeadId
  /\ UNCHANGED <<confVars, isRunning, callCount, inCall, lastCallLogId,
                 taskVars, browser, stopVars, triggers, exitCode, budgetStop,
                 availPath, phoneState, orch, apiVars>>

NextDup == judge

SpecDup == InitDup /\ [][NextDup]_vars

\* the specified predicate: equal leadIds and, only when both records carry
\* a callLogId, equal callLogIds
SpecifiedDuplicate(r) ==
  /\ lastLeadId = r.lead_id
  /\ (lastCallLogId > 0 /\ r.call_log_id > 0)
       => lastCallLogId = r.call_log_id

C27_Original ==
  [][inFlight' > inFlight => isRunning]_vars

\* a disposition was attempted in the handling under way: a disposition
\* button was clicked, a REST setDisposition was issued, or
\* setDispositionViaAPI was invoked
DispositionAttempted == call.dispo >= 1 \/ call.via >= 1

C29_Original ==
  [][(agent # "rest" /\ pc = "verify" /\ pc' = "loop")
       => availPath \in {"scope", "ui", "api"}]_vars

\* C30: in ConvosoAgent.start the start-up steps are strictly ordered and
\* gated on success: phoneLogin is issued only after login returned on a
\* 302, the ready availability change only after phoneLogin was answered
\* with success and data, the loop and its first poll only after the
\* availability change was answered with success; a step answered otherwise
\* leads to the catch of start(), after which no later step and no poll is
\* ever issued.
StartSteps == {"login", "phoneLogin", "ready"}
StartFailed == {"stop_fail", "failed"}
C30_StartGated ==
  [][agent = "rest" =>
       /\ (pc' = "login" /\ pc # "login") => pc = "init"
       /\ (pc' = "phoneLogin" /\ pc # "phoneLogin") =>
            pc = "login" /\ lastResp'.http = "302"
       /\ (pc' = "ready" /\ pc # "ready") =>
            /\ pc = "phoneLogin" /\ lastResp'.http = "200"
            /\ lastResp'.success /\ lastResp'.data
       /\ (pc \in StartSteps \cup {"init"} /\ pc' \notin StartSteps
             /\ pc' \notin StartFailed \cup {"init"}) =>
            /\ pc = "ready" /\ pc' = "loop"
            /\ lastResp'.http = "200" /\ lastResp'.success
       /\ (pc' = "poll" /\ pc # "poll") => pc = "loop"
       /\ (pc \in StartSteps /\ pc' \in StartFailed) =>
            /\ stopCalls' = stopCalls + 1 /\ ~isRunning'
            /\ \/ pc = "login" /\ lastResp'.http # "302"
               \/ pc # "login"
                    /\ (lastResp'.http = "fail" \/ ~lastResp'.success
                         \/ (pc = "phoneLogin" /\ ~lastResp'.data))
       /\ pc \in StartFailed => pc' \in StartFailed]_vars
\* phoneLogin was answered with success but without data: start() is in its
\* catch, stop() running, and no availability change or poll was issued
C30_Witness ==
  /\ agent = "rest" /\ pc = "stop_fail" /\ stopRuns = 1 /\ callCount = 0
  /\ lastResp.http = "200" /\ lastResp.success /\ ~lastResp.data
  /\ stopPc = "s_notready" /\ ~isRunning

\* C31: ConvosoAgent.stop attempts the phone logout on every stop that passes
\* its isRunning guard, including a stop triggered by a failed start and a
\* stop whose set-not-ready availability change fails: once such a stop has
\* returned, a logout request has been issued.
C31_Original ==
  (agent = "rest" /\ stopRuns >= 1 /\ stopPc = "idle") =>
    \E i \in 1..Len(stopLog) : stopLog[i] = "logout"

\* C32: waitForPhoneState(expected, timeoutMs) always terminates: it takes a
\* bounded number of samples, returns true as soon as a sample equals the
\* expected state and false once the time is over without such a sample,
\* and in both cases handleCall resets the remembered identity and goes on
\* to its closing sleep, after which it returns to the loop.
C32_WaitEnds ==
  [][(agent = "prev" /\ hpc = "h_phone") =>
       /\ hpc' \in {"h_phone", "h_next", "h_catch"}
       /\ phoneSamples' <= MaxPhoneSamples
       /\ (hpc' = "h_phone" /\ phoneSamples' # phoneSamples) =>
            /\ phoneSamples' = phoneSamples + 1
            /\ call'.sample # 2 /\ call'.waited = "none"
       /\ hpc' = "h_next" =>
            /\ call'.waited = IF call'.sample = 2 THEN "true" ELSE "false"
            /\ phoneSamples' = phoneSamples + 1
            /\ lastLeadId' = NoId /\ lastCallLogId' = NoId
            /\ UNCHANGED <<isRunning, callCount, pc, inFlight>>]_vars
\* the wait ran out of time on its second sample, which was not the expected
\* state: it returned false and handleCall went on
C32_Witness ==
  /\ agent = "prev" /\ hpc = "h_next" /\ phoneSamples = MaxPhoneSamples
  /\ call.waited = "false" /\ call.sample = 1
  /\ lastLeadId = NoId /\ lastCallLogId = NoId /\ call.dispo = 1

\* C33: in the phone-state-guarded browser agent a detected call is acted on
\* only when the phone state sampled in the same loop iteration confirms an
\* actionable call (the code accepts Available, state 2, only); in an
\* iteration with any other sampled state the detection is not even issued,
\* no call handling is started and callCount is unchanged.
C33_PhoneGuarded ==
  [][agent = "prev" =>
       /\ (inFlight' > inFlight \/ callCount' # callCount) =>
            pc = "detect" /\ phoneState = 2 /\ phoneState' = 2
       /\ (pc' = "detect" /\ pc # "detect") =>
            pc = "phone" /\ phoneState' = 2
       /\ (pc = "phone" /\ pc' # "phone" /\ phoneState' # 2) =>
            /\ pc' \in {"loop", "stop_fail", "failed", "done"}
            /\ UNCHANGED <<callCount, inFlight, hpc, lastLeadId,
                           lastCallLogId>>]_vars
\* the second call of the previous agent was accepted in an iteration whose
\* sample was Available
C33_Witness ==
  /\ agent = "prev" /\ pc = "awaitHandle" /\ hpc = "h_wait"
  /\ phoneState = 2 /\ callCount = 2 /\ inFlight = 1

\* C34 (as stated): in PuppeteerAgent.handleCall the end-call ladder runs in
\* order: one WRAPUP click attempt; if it finds no control, a wait and one
\* retry; the
\* REST hangup is issued only after every UI attempt found no control, that
\* is after the retry found none; at most one end-call action (a UI click or
\* a REST hangup) is performed per call.
C34_Original ==
  [][agent # "rest" =>
       /\ call'.endAct <= 1
       /\ (hpc = "h_wrapup" /\ hpc' \notin {"h_wrapup", "h_catch"}
             /\ call'.endAct = call.endAct) => hpc' = "h_wrapup2"
       /\ (hpc = "h_wrapup2" /\ hpc' \notin {"h_wrapup2", "h_catch"}
             /\ call'.endAct = call.endAct) => hpc' = "h_sess"
       /\ (hpc' = "h_sess" /\ hpc # "h_sess") =>
            hpc = "h_wrapup2" /\ call.endAct = 0
       /\ (hpc' = "h_hangup" /\ hpc # "h_hangup") =>
            hpc = "h_sess" /\ call.endAct = 0]_vars

\* C34 (amended): the end-call ladder of PuppeteerAgent.js runs in order: a
\* WRAPUP click attempt, on a miss a wait and a retry, on a second miss an
\* attempt on the Wrapup button of a modal, and the REST hangup only after
\* all three found no control; the previous agent makes one attempt and on
\* a miss goes on to the disposition; a click ends the ladder, and at most
\* one end-call action is performed per call.
C34_Amended ==
  [][agent # "rest" =>
       LET miss(step) == /\ hpc = step /\ hpc' \notin {step, "h_catch"}
                         /\ call'.endAct = call.endAct
       IN /\ call'.endAct <= 1
          /\ miss("h_wrapup") =>
               hpc' = IF agent = "browser" THEN "h_wrapup2" ELSE "h_dispo1"
          /\ miss("h_wrapup2") => hpc' = "h_modal"
          /\ miss("h_modal") => hpc' = "h_sess"
          /\ (hpc \in {"h_wrapup", "h_wrapup2", "h_modal"}
                /\ call'.endAct > call.endAct) => hpc' = "h_dispo1"
          /\ (hpc' = "h_wrapup2" /\ hpc # hpc') => hpc = "h_wrapup"
          /\ (hpc' = "h_modal" /\ hpc # hpc') => hpc = "h_wrapup2"
          /\ (hpc' = "h_sess" /\ hpc # hpc') =>
               hpc = "h_modal" /\ call.endAct = 0
          /\ (hpc' = "h_hangup" /\ hpc # hpc') =>
               hpc = "h_sess" /\ call.endAct = 0 /\ call'.endAct = 1
          /\ agent = "prev" =>
               hpc' \notin {"h_wrapup2", "h_modal", "h_sess", "h_hangup"}]_vars
\* three UI attempts found no control and the REST hangup was issued
C34_Witness ==
  /\ agent = "browser" /\ hpc = "h_hangup" /\ call.endAct = 1
  /\ call.dispo = 0 /\ callCount = 1 /\ inCall /\ browser = "open"

\* C35: the client's sessionId and agentLogId are unset until a phone-login
\* response has succeeded, and afterwards change only to values supplied by
\* a platform response (the phone-login response, or a later response that
\* carries an updated identifier); no other operation overwrites or clears
\* them.
C35_Original ==
  [][/\ sessionId' # sessionId =>
          /\ op = "phoneLogin" /\ apiPc = "wait"
          /\ lastResp'.success /\ sessionId' = lastResp'.sid
     /\ agentLogId' # agentLogId =>
          /\ op \in {"phoneLogin", "setDisposition"} /\ apiPc = "wait"
          /\ lastResp'.success /\ agentLogId' = lastResp'.alid]_vars

\* C36: the remembered call identity (lastLeadId, lastCallLogId) is set when
\* a call is accepted and is cleared only after that call is closed: after
\* its disposition step has completed, or when its handling is abandoned by
\* an error; while the end-call or the disposition step is pending the
\* remembered identity is that of the call in flight.
C36_ClearedAfterClose ==
  [][agent # "rest" =>
       /\ inFlight' > inFlight =>
            /\ lastLeadId' = callInfo'.lead_id /\ lastLeadId' # NoId
            /\ agent = "prev" => lastCallLogId' = callInfo'.call_log_id
       /\ ((lastLeadId # NoId /\ lastLeadId' = NoId)
             \/ (lastCallLogId # NoId /\ lastCallLogId' = NoId)) =>
            \/ hpc = "idle" /\ inFlight = 0
            \/ hpc # "h_catch" /\ hpc' = "h_catch"
            \/ CallStage(hpc) = 5 /\ hpc' = "h_next"
       /\ CallStage(hpc') \in 1..4 =>
            /\ lastLeadId' = callInfo'.lead_id
            /\ agent = "prev" => lastCallLogId' = callInfo'.call_log_id]_vars
\* the browser agent dispositioned the call by a click and then cleared the
\* remembered identity, before handleCall returns
C36_Witness ==
  /\ agent = "browser" /\ hpc = "h_next" /\ inFlight = 1 /\ inCall
  /\ lastLeadId = NoId /\ callInfo.lead_id = 1
  /\ call.dispo = 1 /\ call.via = 0 /\ call.endAct = 1

\* C37: the browser-state detector returns null when no live identity is
\* present or when reading the page state throws; with the identity present
\* and no info object populated it returns a record holding only that
\* identity; every record it returns that starts a call carries the live
\* identity (window.lead_id) as its lead_id.
C37_Original ==
  (agent # "rest" /\ hpc # "idle") =>
    /\ call.live > 0
    /\ callInfo.lead_id = call.live

\* the event e occurs in the orchestrator's log before position i
Earlier(e, i) == \E j \in 1..(i - 1) : orch.log[j] = e

\* C38 (as stated): the OCR recorder is started before the agent process is
\* spawned and is stopped only after the agent process has exited and the
\* call-log extraction has been attempted.
C38_Original ==
  \A i \in 1..Len(orch.log) :
    /\ orch.log[i] = "agentSpawn" =>
         (orch.scriptExists => Earlier("ocrStart", i))
    /\ orch.log[i] = "ocrStop" =>
         Earlier("agentExit", i) /\ Earlier("extract", i)

\* C38 (amended): the recorder is started before the agent process is
\* spawned; run() itself stops it only after the agent process has exited
\* and the extraction has been attempted, whatever the extraction returned;
\* any other stop of the recorder is made by cleanup, which the catch of
\* run() calls when a child process fails to start and the signal handler
\* calls on SIGINT or SIGTERM.
C38_Amended ==
  /\ \A i \in 1..Len(orch.log) :
       /\ orch.log[i] = "agentSpawn" =>
            (orch.scriptExists => Earlier("ocrStart", i))
       /\ orch.log[i] = "extract" => Earlier("agentExit", i)
       /\ orch.log[i] = "ocrStop" =>
            \/ Earlier("agentExit", i) /\ Earlier("extract", i)
            \/ Earlier("cleanup", i)
  /\ orch.pc \in {"catch", "failed"} =>
       orch.extract = "none" /\ orch.puppeteerProcess \in {"null", "failed"}
  /\ orch.pc = "done" =>
       /\ orch.extract # "none" /\ orch.puppeteerProcess = "exited"
       /\ orch.pythonProcess = IF orch.scriptExists THEN "exited" ELSE "null"
\* the extraction failed and run() stopped the recorder all the same
C38_Witness ==
  /\ orch.pc = "done" /\ orch.extract = "failed" /\ orch.handler = "none"
  /\ orch.log = <<"ocrStart", "agentSpawn", "agentExit", "extract", "ocrStop">>
  /\ orch.pythonProcess = "exited" /\ orch.exit = 1

\* C39: every call-handling sequence terminates: once handleCall has started
\* it returns, normally or through its own catch, whatever the outcome of
\* each UI or REST step, unless the process exits first.
C39_Terminates ==
  (hpc # "idle") ~> (hpc = "idle" \/ exitCode # NotExited)
\* a handling of the browser agent was abandoned by an error and returned
\* through the catch of handleCall; the loop has resumed
C39_Witness ==
  /\ agent = "browser" /\ hpc = "idle" /\ inFlight = 0 /\ callCount = 1
  /\ call.ended = "error" /\ pc = "loop" /\ ~inCall /\ exitCode = NotExited

\* positions of the main task inside handleCallsLoop / monitorCalls
LoopPcs == {"loop", "poll", "phone", "detect", "awaitHandle"}

\* C40: with config.maxCalls = 0, the default, the call budget is unlimited:
\* the budget check never calls stop(), whatever value callCount reaches,
\* and the loop ends only because isRunning was set false from outside or,
\* in ConvosoAgent, on a critical (authentication or session) poll error.
C40_Unlimited ==
  [][maxCalls = 0 =>
       /\ ~budgetStop'
       /\ (pc \in LoopPcs /\ pc' \notin LoopPcs) =>
            \/ pc = "loop" /\ ~isRunning /\ pc' = "done"
            \/ /\ agent = "rest" /\ pc = "poll" /\ Critical(lastResp')
               /\ pc' \in {"stop_break", "done"}
               /\ stopCalls' = stopCalls + 1]_vars
\* the unlimited agent has taken as many calls as the model allows, more
\* than any budget of the model, and polls on
C40_Witness ==
  /\ agent = "rest" /\ maxCalls = 0 /\ callCount = CallCap
  /\ CallCap > MaxBudget /\ pc = "poll" /\ isRunning /\ hpc = "idle"
  /\ ~budgetStop /\ stopCalls = 0 /\ exitCode = NotExited
====
